---- MODULE Spec2Model ----
(***************************************************************************)
(* The vulnerability-monitoring daemon of trix: the State Store            *)
(* (internal/server/db.go), the poll cycle and the orchestrator            *)
(* (internal/server/notifier.go, second half: Server).  The                *)
(* specifications share the variables: SpecStore (the store's calls, one   *)
(* at a time), SpecRead (the store's reads), SpecScan (the scanners of     *)
(* internal/tools), Spec (the daemon's poll cycles, with restarts of the   *)
(* process), SpecRun (Server.Run: health server, ticker, shutdown),        *)
(* SpecCrash (a crash in the middle of a cycle), SpecFilter (one call of   *)
(* the Notifier), SpecConc (two UpsertVulnerability calls that run         *)
(* concurrently) and SpecAsk (one call of the agent's Ask, internal/agent).*)
(*                                                                         *)
(* The table `vulnerabilities` is the function db: its domain is the set   *)
(* of stored ids, a row is a record of the table's columns.  A nullable    *)
(* column (fixed_at) holds <<>> for NULL and <<t>> for the timestamp t.    *)
(* time.Now() is modelled by the clock `now`: every reading returns a      *)
(* value strictly greater than the previous reading (a statement's round   *)
(* trip to the database takes longer than the clock's resolution).         *)
(***************************************************************************)
EXTENDS Integers, Sequences, FiniteSets, TLC

\* ---------------------------------------------------------------- bounds
\* The clock stops the exploration at MaxTime.
MaxTime == 4

\* ------------------------------------------------------------ data model
StateOpen == "OPEN"
StateFixed == "FIXED"

Cves == {"CVE-1", "CVE-2"}
Workloads == {"ns/deploy/a"}
Severities == {"CRITICAL", "LOW"}
Images == {"img:1", "img:2"}

\* hash(cve + workload): the fingerprint is a function of the pair and
\* different pairs have different fingerprints.
generateID(cve, workload) == <<cve, workload>>

Ids == {generateID(c, w) : c \in Cves, w \in Workloads}

\* What a caller hands to UpsertVulnerability: a VulnerabilityRecord with
\* ID, CVE, Workload, Severity and Image filled in.
Candidates ==
    {[ID |-> generateID(c, w), CVE |-> c, Workload |-> w, Severity |-> s, Image |-> i] :
        c \in Cves, w \in Workloads, s \in Severities, i \in Images}

NULL == <<>>
Some(t) == <<t>>

ErrNoRows == "sql: no rows in result set"
NoErr == "nil"

VARIABLES
    db,         \* the table vulnerabilities: stored id -> row
    synced,     \* the ids whose delivery-tracking flag is true
    now,        \* the last value time.Now() returned
    last,       \* the store operation that ran last, its arguments and result
    prev,       \* the store operation that ran before it
    config,     \* Server.config: the enabled channels and the severity threshold
    loop,       \* runPollLoop's position: "initial" poll or "ticker" loop
    pc,         \* the position inside Server.poll, "idle" between two cycles
    firstPoll,  \* Server.firstPoll
    ready,      \* Server.ready
    cands,      \* Poll: the candidates still to upsert
    seen,       \* Poll: the fingerprints upserted so far in this cycle
    events,     \* Poll: the events of this cycle
    pollErr,    \* Poll returned an error in this cycle
    sent,       \* the deliveries made in this cycle, in order
    cycleStart, \* the store as it was when this cycle began
    invoked,    \* the Notifier entry point Server.poll called in this cycle, and its argument
    results,    \* the remote-sync results handleSaasResult received in this cycle, in order
    calls,      \* concurrent UpsertVulnerability calls: caller -> its position and locals
    race,       \* the store those calls began on, and whether they interleaved
    arg,        \* the argument of a function called on its own; in Ask, its messages
    out,        \* what the last read or the function called on its own returned;
                \* in a cycle, what the store calls of Poll have returned
    proc,       \* the process: "running", "exited" (Run returned) or "crashed"
    tick,       \* a tick waits in ticker.C
    http,       \* the last request to the health server and its answer
    inFlight,   \* the calls of Server.poll that have begun and not returned
    crash       \* the cycle the last stop of the process cut off

storeVars == <<db, synced, now, last, prev>>
serverVars == <<config, loop, pc, firstPoll, ready>>
cycleVars == <<cands, seen, events, pollErr, sent, cycleStart, invoked, results>>
concVars == <<calls, race>>
callVars == <<arg, out>>
runVars == <<proc, tick, http, inFlight, crash>>
vars == <<storeVars, serverVars, cycleVars, concVars, callVars, runVars>>

\* ------------------------------------------------- the store's statements
\* SELECT state FROM vulnerabilities WHERE id = $1
SelectState(d, id) == IF id \in DOMAIN d THEN d[id].state ELSE ErrNoRows

\* INSERT INTO vulnerabilities (id, cve, workload, severity, image, state,
\* first_seen, last_seen) VALUES ($1, $2, $3, $4, $5, $6, $7, $7)
InsertRow(d, v, t) ==
    [i \in DOMAIN d \cup {v.ID} |->
        IF i = v.ID
        THEN [id |-> v.ID, cve |-> v.CVE, workload |-> v.Workload,
              severity |-> v.Severity, image |-> v.Image, state |-> StateOpen,
              first_seen |-> t, last_seen |-> t, fixed_at |-> NULL]
        ELSE d[i]]

\* Mutant: the reopening UPDATE without `fixed_at = NULL`.
UpdateReopenKeepsFixedAt(d, v, t) ==
    [i \in DOMAIN d |->
        IF i = v.ID
        THEN [d[i] EXCEPT !.state = StateOpen, !.last_seen = t,
                          !.severity = v.Severity, !.image = v.Image]
        ELSE d[i]]

\* Mutant: the reopening UPDATE also writes first_seen, as the INSERT does.
UpdateReopenResetsFirstSeen(d, v, t) ==
    [i \in DOMAIN d |->
        IF i = v.ID
        THEN [d[i] EXCEPT !.state = StateOpen, !.last_seen = t, !.fixed_at = NULL,
                          !.severity = v.Severity, !.image = v.Image, !.first_seen = t]
        ELSE d[i]]

\* UPDATE vulnerabilities SET state = $1, last_seen = $2, fixed_at = NULL,
\* severity = $3, image = $4 WHERE id = $5
UpdateReopen(d, v, t) ==
    [i \in DOMAIN d |->
        IF i = v.ID
        THEN [d[i] EXCEPT !.state = StateOpen, !.last_seen = t, !.fixed_at = NULL,
                          !.severity = v.Severity, !.image = v.Image]
        ELSE d[i]]

\* Mutant: the refreshing UPDATE without `last_seen = $1`.
UpdateSeenKeepsLastSeen(d, v, t) ==
    [i \in DOMAIN d |->
        IF i = v.ID
        THEN [d[i] EXCEPT !.severity = v.Severity, !.image = v.Image]
        ELSE d[i]]

\* UPDATE vulnerabilities SET last_seen = $1, severity = $2, image = $3
\* WHERE id = $4
UpdateSeen(d, v, t) ==
    [i \in DOMAIN d |->
        IF i = v.ID
        THEN [d[i] EXCEPT !.last_seen = t, !.severity = v.Severity, !.image = v.Image]
        ELSE d[i]]

\* id TEXT PRIMARY KEY: an INSERT of a stored id fails and inserts nothing.
ErrDuplicateKey == "pq: duplicate key value violates unique constraint"

InsertOrFail(d, v, t) ==
    IF v.ID \in DOMAIN d
    THEN [db |-> d, isNew |-> TRUE, err |-> ErrDuplicateKey]
    ELSE [db |-> InsertRow(d, v, t), isNew |-> TRUE, err |-> NoErr]

\* Mutant: the refresh of an OPEN row reports isNew = true.
UpsertWriteOpenIsNew(d, v, existing, t) ==
    IF existing = ErrNoRows THEN InsertOrFail(d, v, t)
    ELSE IF existing = StateFixed
    THEN [db |-> UpdateReopen(d, v, t), isNew |-> TRUE, err |-> NoErr]
    ELSE [db |-> UpdateSeen(d, v, t), isNew |-> TRUE, err |-> NoErr]

\* Mutant: the reopen of a FIXED row reports isNew = false.
UpsertWriteReopenNotNew(d, v, existing, t) ==
    IF existing = ErrNoRows THEN InsertOrFail(d, v, t)
    ELSE IF existing = StateFixed
    THEN [db |-> UpdateReopen(d, v, t), isNew |-> FALSE, err |-> NoErr]
    ELSE [db |-> UpdateSeen(d, v, t), isNew |-> FALSE, err |-> NoErr]

\* The statement UpsertVulnerability runs after its lookup returned
\* `existing`, the isNew and the error it returns.
UpsertWrite(d, v, existing, t) ==
    IF existing = ErrNoRows THEN InsertOrFail(d, v, t)
    ELSE IF existing = StateFixed
    THEN [db |-> UpdateReopen(d, v, t), isNew |-> TRUE, err |-> NoErr]
    ELSE [db |-> UpdateSeen(d, v, t), isNew |-> FALSE, err |-> NoErr]

\* UpsertVulnerability run alone: the lookup, then the write it selects.
UpsertVulnerability(d, v, t) == UpsertWrite(d, v, SelectState(d, v.ID), t)

\* A row as MarkFixed returns it: RETURNING id, cve, workload, severity,
\* image, first_seen; State and FixedAt are set by the caller's loop and
\* LastSeen keeps Go's zero value.
FixedRecord(r, t) ==
    [id |-> r.id, cve |-> r.cve, workload |-> r.workload, severity |-> r.severity,
     image |-> r.image, state |-> StateFixed, first_seen |-> r.first_seen,
     fixed_at |-> Some(t)]

\* Mutant: the rows that are no longer seen are deleted, not updated.
markAllFixedDeletes(d, t) ==
    LET hit == {i \in DOMAIN d : d[i].state = StateOpen}
    IN [db |-> [i \in DOMAIN d \ hit |-> d[i]],
        fixed |-> {FixedRecord(d[i], t) : i \in hit}]

\* UPDATE ... SET state = FIXED, fixed_at = now WHERE state = OPEN RETURNING ...
markAllFixed(d, t) ==
    LET hit == {i \in DOMAIN d : d[i].state = StateOpen}
    IN [db |-> [i \in DOMAIN d |->
                   IF i \in hit
                   THEN [d[i] EXCEPT !.state = StateFixed, !.fixed_at = Some(t)]
                   ELSE d[i]],
        fixed |-> {FixedRecord(d[i], t) : i \in hit}]

\* Mutant: the WHERE clause without `state = OPEN`.
MarkFixedAnyState(d, currentIDs, t) ==
    IF currentIDs = {} THEN markAllFixed(d, t)
    ELSE
        LET hit == {i \in DOMAIN d : i \notin currentIDs}
        IN [db |-> [i \in DOMAIN d |->
                       IF i \in hit
                       THEN [d[i] EXCEPT !.state = StateFixed, !.fixed_at = Some(t)]
                       ELSE d[i]],
            fixed |-> {FixedRecord(d[i], t) : i \in hit}]

\* Mutant: the WHERE clause without `id != ALL(currentIDs)`.
MarkFixedIgnoresIDs(d, currentIDs, t) == markAllFixed(d, t)

\* UPDATE ... SET state = FIXED, fixed_at = now
\* WHERE state = OPEN AND id != ALL(currentIDs) RETURNING ...
MarkFixed(d, currentIDs, t) ==
    IF currentIDs = {} THEN markAllFixed(d, t)
    ELSE
        LET hit == {i \in DOMAIN d : d[i].state = StateOpen /\ i \notin currentIDs}
        IN [db |-> [i \in DOMAIN d |->
                       IF i \in hit
                       THEN [d[i] EXCEPT !.state = StateFixed, !.fixed_at = Some(t)]
                       ELSE d[i]],
            fixed |-> {FixedRecord(d[i], t) : i \in hit}]

\* MarkSynced(channel, ids): sets the delivery-tracking flag of the ids.
MarkSaasSynced(s, ids) == s \cup ids

\* ------------------------------------------------------ the store's calls
NoCall == [op |-> "none", v |-> NULL, ids |-> {}, t |-> 0, isNew |-> FALSE,
           fixed |-> {}, pre |-> <<>>, preSynced |-> {}]
NoPrev == [op |-> "none", id |-> NULL, isNew |-> FALSE, wasPresent |-> FALSE,
           last_seen |-> 0]

\* What `prev` keeps of a call when the next one runs.
Summary(c, d) ==
    IF c.op = "Upsert"
    THEN [op |-> c.op, id |-> c.v.ID, isNew |-> c.isNew,
          wasPresent |-> c.v.ID \in DOMAIN c.pre, last_seen |-> d[c.v.ID].last_seen]
    ELSE [op |-> c.op, id |-> NULL, isNew |-> FALSE, wasPresent |-> FALSE, last_seen |-> 0]

\* A store call made at the next clock reading: the table, the history.
RunUpsert(v) ==
    /\ LET r == UpsertVulnerability(db, v, now + 1)
       IN /\ db' = r.db
          /\ last' = [op |-> "Upsert", v |-> v, ids |-> {}, t |-> now + 1,
                      isNew |-> r.isNew, fixed |-> {}, pre |-> db,
                      preSynced |-> synced]
    /\ now' = now + 1
    /\ prev' = Summary(last, db)
    /\ UNCHANGED synced

RunMarkFixed(currentIDs) ==
    /\ LET r == MarkFixed(db, currentIDs, now + 1)
       IN /\ db' = r.db
          /\ last' = [op |-> "MarkFixed", v |-> NULL, ids |-> currentIDs,
                      t |-> now + 1, isNew |-> FALSE, fixed |-> r.fixed,
                      pre |-> db, preSynced |-> synced]
    /\ now' = now + 1
    /\ prev' = Summary(last, db)
    /\ UNCHANGED synced

NoConfig == [slack |-> FALSE, webhook |-> FALSE, saas |-> FALSE, minSeverity |-> "LOW"]
NoCycle == [db |-> <<>>, synced |-> {}, firstPoll |-> FALSE, lastScan |-> NULL]
NoRace == [start |-> <<>>, interleaved |-> FALSE]
NoInvocation == [fn |-> "none", events |-> <<>>]
NoOut == [op |-> "none"]
NoRequest == [path |-> "none", status |-> 0, ready |-> FALSE]
NoCrash == [cut |-> FALSE, db |-> <<>>, scan |-> {}, stale |-> <<>>]

\* The store alone: no server runs.
StoreInit ==
    /\ db = <<>>
    /\ synced = {}
    /\ now = 0
    /\ last = NoCall
    /\ prev = NoPrev
    /\ config = NoConfig
    /\ loop = "none"
    /\ pc = "none"
    /\ firstPoll = FALSE
    /\ ready = FALSE
    /\ cands = <<>>
    /\ seen = {}
    /\ events = <<>>
    /\ pollErr = FALSE
    /\ sent = <<>>
    /\ cycleStart = NoCycle
    /\ invoked = NoInvocation
    /\ results = <<>>
    /\ calls = <<>>
    /\ race = NoRace
    /\ arg = <<>>
    /\ out = NoOut
    /\ proc = "none"
    /\ tick = FALSE
    /\ http = NoRequest
    /\ inFlight = 0
    /\ crash = NoCrash

CallUpsert(v) ==
    /\ now < MaxTime
    /\ RunUpsert(v)
    /\ UNCHANGED <<serverVars, cycleVars, concVars, callVars, runVars>>

CallMarkFixed(currentIDs) ==
    /\ now < MaxTime
    /\ RunMarkFixed(currentIDs)
    /\ UNCHANGED <<serverVars, cycleVars, concVars, callVars, runVars>>

CallMarkSynced(ids) ==
    /\ ids # {}
    /\ synced' = MarkSaasSynced(synced, ids)
    /\ last' = [op |-> "MarkSynced", v |-> NULL, ids |-> ids, t |-> now,
                isNew |-> FALSE, fixed |-> {}, pre |-> db, preSynced |-> synced]
    /\ prev' = Summary(last, db)
    /\ UNCHANGED <<db, now, serverVars, cycleVars, concVars, callVars, runVars>>

\* Time passes between two calls.
Tick ==
    /\ now < MaxTime
    /\ now' = now + 1
    /\ UNCHANGED <<db, synced, last, prev, serverVars, cycleVars, concVars, callVars, runVars>>

StoreNext ==
    \/ \E v \in Candidates : CallUpsert(v)
    \/ \E ids \in SUBSET Ids : CallMarkFixed(ids)
    \/ \E ids \in SUBSET DOMAIN db : CallMarkSynced(ids)
    \/ Tick

SpecStore == StoreInit /\ [][StoreNext]_vars

\* ======================================================= the store's reads
\* The latest first_seen of a row in the stores that are read.
MaxReadTime == 3

ReadCves == {"CVE-1", "CVE-2", "CVE-3"}
ReadSeverities == {"CRITICAL", "HIGH", "MEDIUM", "LOW", "UNKNOWN"}

ReadIds == {generateID(c, "ns/deploy/a") : c \in ReadCves}

\* Every enumeration of the set S as a sequence.
Orders(S) ==
    {f \in [1..Cardinality(S) -> S] : \A i, j \in 1..Cardinality(S) : f[i] = f[j] => i = j}

Range(f) == {f[i] : i \in DOMAIN f}

\* ORDER BY CASE severity WHEN 'CRITICAL' THEN 1 ... ELSE 5 END
sqlSeverityRank(sev) ==
    CASE sev = "CRITICAL" -> 1
      [] sev = "HIGH" -> 2
      [] sev = "MEDIUM" -> 3
      [] sev = "LOW" -> 4
      [] OTHER -> 5

\* Mutant: within a severity the oldest row comes first.
GetOpenVulnerabilitiesOldestFirst(d) ==
    LET open == {d[i] : i \in {j \in DOMAIN d : d[j].state = StateOpen}}
        Before(x, y) ==
            \/ sqlSeverityRank(x.severity) < sqlSeverityRank(y.severity)
            \/ /\ sqlSeverityRank(x.severity) = sqlSeverityRank(y.severity)
               /\ x.first_seen < y.first_seen
    IN {f \in Orders(open) : \A i, j \in DOMAIN f : i < j => ~Before(f[j], f[i])}

\* GetOpenVulnerabilities: the row lists the SELECT can return: the rows
\* WHERE state = OPEN, ORDER BY the severity rank, then first_seen DESC
\* (rows equal in both keys come in any order).
GetOpenVulnerabilities(d) ==
    LET open == {d[i] : i \in {j \in DOMAIN d : d[j].state = StateOpen}}
        Before(x, y) ==
            \/ sqlSeverityRank(x.severity) < sqlSeverityRank(y.severity)
            \/ /\ sqlSeverityRank(x.severity) = sqlSeverityRank(y.severity)
               /\ x.first_seen > y.first_seen
    IN {f \in Orders(open) : \A i, j \in DOMAIN f : i < j => ~Before(f[j], f[i])}

\* SELECT COUNT(*) FROM vulnerabilities WHERE state = $1
CountState(d, st) == Cardinality({i \in DOMAIN d : d[i].state = st})

\* Mutant: the severity breakdown counts the rows of every state.
GetStatsAllStates(d) ==
    [TotalOpen |-> CountState(d, StateOpen),
     TotalFixed |-> CountState(d, StateFixed),
     BySeverity |->
         [sev \in {d[i].severity : i \in DOMAIN d} |->
             Cardinality({i \in DOMAIN d : d[i].severity = sev})]]

\* GetStats: the two counts by state and the GROUP BY severity of the OPEN
\* rows (a severity without an OPEN row has no entry).
GetStats(d) ==
    [TotalOpen |-> CountState(d, StateOpen),
     TotalFixed |-> CountState(d, StateFixed),
     BySeverity |->
         [sev \in {d[i].severity : i \in {j \in DOMAIN d : d[j].state = StateOpen}} |->
             Cardinality({i \in DOMAIN d : d[i].state = StateOpen /\ d[i].severity = sev})]]

\* The stores the reads run on: rows inserted at different times up to
\* MaxReadTime, some of them marked FIXED by one MarkFixed after the last
\* insert.
ReadStores ==
    LET Shapes == [severity : ReadSeverities, first_seen : 1..MaxReadTime,
                   state : {StateOpen, StateFixed}]
        Row(i, sh) ==
            [id |-> i, cve |-> i[1], workload |-> i[2], severity |-> sh.severity,
             image |-> "img:1", state |-> sh.state, first_seen |-> sh.first_seen,
             last_seen |-> sh.first_seen,
             fixed_at |-> IF sh.state = StateFixed THEN Some(MaxReadTime + 1) ELSE NULL]
        Plans == UNION {[S -> Shapes] : S \in SUBSET ReadIds}
    IN {[i \in DOMAIN pl |-> Row(i, pl[i])] :
           pl \in {q \in Plans : \A i, j \in DOMAIN q :
                                    q[i].first_seen = q[j].first_seen => i = j}}

ReadInit ==
    /\ db \in ReadStores
    /\ synced = {}
    /\ now = MaxReadTime + 1
    /\ last = NoCall
    /\ prev = NoPrev
    /\ config = NoConfig
    /\ loop = "none"
    /\ pc = "none"
    /\ firstPoll = FALSE
    /\ ready = FALSE
    /\ cands = <<>>
    /\ seen = {}
    /\ events = <<>>
    /\ pollErr = FALSE
    /\ sent = <<>>
    /\ cycleStart = NoCycle
    /\ invoked = NoInvocation
    /\ results = <<>>
    /\ calls = <<>>
    /\ race = NoRace
    /\ arg = <<>>
    /\ out = NoOut
    /\ proc = "none"
    /\ tick = FALSE
    /\ http = NoRequest
    /\ inFlight = 0
    /\ crash = NoCrash

\* GetOpenVulnerabilities(ctx): the rows it returns, on the store `pre`.
CallGetOpen ==
    /\ \E rows \in GetOpenVulnerabilities(db) :
          out' = [op |-> "GetOpen", pre |-> db, rows |-> rows]
    /\ UNCHANGED <<storeVars, serverVars, cycleVars, concVars, arg, runVars>>

\* GetStats(ctx): the Stats it returns, on the store `pre`.
CallGetStats ==
    /\ out' = [op |-> "GetStats", pre |-> db, stats |-> GetStats(db)]
    /\ UNCHANGED <<storeVars, serverVars, cycleVars, concVars, arg, runVars>>

ReadNext ==
    \/ CallGetOpen
    \/ CallGetStats

SpecRead == ReadInit /\ [][ReadNext]_vars

\* =========================================================== the scanners
\* TrivyVulnScanner.Scan (internal/tools/tools.go) and ClusterVulnScanner.Scan
\* (internal/tools/trivy/cluster_scanners.go) over the reports the client
\* lists.  A report is an unstructured map: its key "metadata" is absent,
\* holds a value that is not a map, or holds a map with name and namespace;
\* its vulnerabilities parse or do not.

\* The longest list of reports that is scanned.
MaxReports == 3

ScanVulns == {<<>>, <<"CVE-1">>, <<"CVE-1", "CVE-2">>}

\* metadata: "absent" (no such key), "scalar" (a value that is not a map),
\* "map".  parses: whether ParseVulnerabilities accepts the report.
Reports ==
    [metadata : {"absent", "scalar", "map"}, name : {"report-a"},
     namespace : {"ns"}, parses : BOOLEAN, vulns : ScanVulns]

ReportLists == UNION {[1..n -> Reports] : n \in 0..MaxReports}

ErrParse == "failed to parse vulnerabilities"
ErrList == "failed to list vulnerability reports"

\* Client.ParseVulnerabilities(report): the vulnerabilities of the report,
\* or an error.
ParseVulnerabilities(report) ==
    IF report.parses
    THEN [vulns |-> report.vulns, err |-> NoErr]
    ELSE [vulns |-> <<>>, err |-> ErrParse]

\* VulnerabilityToFinding(v, ns, name): the finding of one vulnerability of
\* the resource name in the namespace ns.
VulnerabilityToFinding(v, ns, name) ==
    [ID |-> v, Namespace |-> ns, ResourceName |-> name, ResourceKind |-> ""]

\* The loop body of Scan for one report: the findings it appends.  A report
\* without a metadata map, or whose vulnerabilities do not parse, appends
\* nothing (continue).
ScanReport(report, cluster) ==
    IF report.metadata # "map"
    THEN <<>>
    ELSE LET p == ParseVulnerabilities(report)
         IN IF p.err # NoErr
            THEN <<>>
            ELSE [i \in 1..Len(p.vulns) |->
                     IF cluster
                     THEN [VulnerabilityToFinding(p.vulns[i], "", report.name)
                              EXCEPT !.ResourceKind = "Cluster"]
                     ELSE VulnerabilityToFinding(p.vulns[i], report.namespace,
                                                 report.name)]

\* A loop that leaves at the first report it cannot read.
RECURSIVE ScanLoopBreaks(_, _, _)
ScanLoopBreaks(reports, cluster, findings) ==
    IF reports = <<>>
    THEN [findings |-> findings, err |-> NoErr]
    ELSE IF Head(reports).metadata # "map" \/ ~Head(reports).parses
         THEN [findings |-> findings, err |-> NoErr]
         ELSE ScanLoopBreaks(Tail(reports), cluster,
                             findings \o ScanReport(Head(reports), cluster))

\* for _, report := range reports { ... }; return findings, nil
RECURSIVE ScanLoop(_, _, _)
ScanLoop(reports, cluster, findings) ==
    IF reports = <<>>
    THEN [findings |-> findings, err |-> NoErr]
    ELSE ScanLoop(Tail(reports), cluster,
                  findings \o ScanReport(Head(reports), cluster))

\* Scan(ctx, namespace): listErr is the error of the client's list call.
Scan(reports, listErr, cluster) ==
    IF listErr
    THEN [findings |-> <<>>, err |-> ErrList]
    ELSE ScanLoop(reports, cluster, <<>>)

\* The reports the client will list.
ScanInit ==
    /\ db = <<>>
    /\ synced = {}
    /\ now = 0
    /\ last = NoCall
    /\ prev = NoPrev
    /\ config = NoConfig
    /\ loop = "none"
    /\ pc = "scan"
    /\ firstPoll = FALSE
    /\ ready = FALSE
    /\ cands = <<>>
    /\ seen = {}
    /\ events = <<>>
    /\ pollErr = FALSE
    /\ sent = <<>>
    /\ cycleStart = NoCycle
    /\ invoked = NoInvocation
    /\ results = <<>>
    /\ calls = <<>>
    /\ race = NoRace
    /\ arg \in ReportLists
    /\ out = NoOut
    /\ proc = "none"
    /\ tick = FALSE
    /\ http = NoRequest
    /\ inFlight = 0
    /\ crash = NoCrash

\* TrivyVulnScanner.Scan(ctx, namespace)
CallTrivyScan ==
    /\ pc = "scan"
    /\ \E listErr \in BOOLEAN :
          LET r == Scan(arg, listErr, FALSE)
          IN out' = [op |-> "Scan", scanner |-> "trivy-vulns", reports |-> arg,
                     listErr |-> listErr, findings |-> r.findings, err |-> r.err]
    /\ pc' = "done"
    /\ UNCHANGED <<storeVars, config, loop, firstPoll, ready, cycleVars, concVars,
                   arg, runVars>>

\* ClusterVulnScanner.Scan(ctx, _)
CallClusterScan ==
    /\ pc = "scan"
    /\ \E listErr \in BOOLEAN :
          LET r == Scan(arg, listErr, TRUE)
          IN out' = [op |-> "Scan", scanner |-> "cluster-vulns", reports |-> arg,
                     listErr |-> listErr, findings |-> r.findings, err |-> r.err]
    /\ pc' = "done"
    /\ UNCHANGED <<storeVars, config, loop, firstPoll, ready, cycleVars, concVars,
                   arg, runVars>>

ScanNext ==
    \/ CallTrivyScan
    \/ CallClusterScan

SpecScan == ScanInit /\ [][ScanNext]_vars

\* ============================================================ the daemon
\* The clock stops the exploration of the daemon at MaxPollTime.
MaxPollTime == 5

\* What the Scanner Source can return: findings with different fingerprints.
ScanResults ==
    {F \in SUBSET Candidates : \A x, y \in F : x.ID = y.ID => x = y}

\* The channel configurations explored.
Configs ==
    {[slack |-> FALSE, webhook |-> FALSE, saas |-> FALSE, minSeverity |-> "LOW"],
     [slack |-> TRUE, webhook |-> TRUE, saas |-> TRUE, minSeverity |-> "HIGH"],
     [slack |-> FALSE, webhook |-> FALSE, saas |-> TRUE, minSeverity |-> "LOW"]}

\* Config.HasNotifications: some channel is configured.
HasNotifications(cfg) == cfg.slack \/ cfg.webhook \/ cfg.saas

\* The events of a cycle.  (A VulnerabilityEvent also carries FirstSeen and
\* FixedAt; no delivery decision reads them.)
NewEvent(v) ==
    [ID |-> v.ID, Type |-> "NEW", CVE |-> v.CVE, Workload |-> v.Workload,
     Severity |-> v.Severity, Image |-> v.Image]

FixedEvent(r) ==
    [ID |-> r.id, Type |-> "FIXED", CVE |-> r.cve, Workload |-> r.workload,
     Severity |-> r.severity, Image |-> r.image]

\* retrySaasSync's conversion of an unsynced row to an event.
RetryEvent(r) ==
    [ID |-> r.id, Type |-> IF r.state = StateFixed THEN "FIXED" ELSE "NEW",
     CVE |-> r.cve, Workload |-> r.workload, Severity |-> r.severity,
     Image |-> r.image]

\* strings.ToUpper on the severity strings that occur.
ToUpper(str) ==
    CASE str = "critical" -> "CRITICAL"
      [] str = "high" -> "HIGH"
      [] str = "medium" -> "MEDIUM"
      [] str = "low" -> "LOW"
      [] str = "unknown" -> "UNKNOWN"
      [] OTHER -> str

\* Mutant: an unknown severity ranks above CRITICAL.
severityLevelUnknownFirst(sev) ==
    LET u == ToUpper(sev)
    IN CASE u = "CRITICAL" -> 1
         [] u = "HIGH" -> 2
         [] u = "MEDIUM" -> 3
         [] u = "LOW" -> 4
         [] OTHER -> 0

severityLevel(sev) ==
    LET u == ToUpper(sev)
    IN CASE u = "CRITICAL" -> 1
         [] u = "HIGH" -> 2
         [] u = "MEDIUM" -> 3
         [] u = "LOW" -> 4
         [] OTHER -> 5

filterBySeverity(evs, minSeverity) ==
    SelectSeq(evs, LAMBDA e : severityLevel(e.Severity) <= severityLevel(minSeverity))

\* countBySeverity: severity -> the number of events that carry it.
countBySeverity(evs) ==
    [sev \in {evs[k].Severity : k \in DOMAIN evs} |->
        Cardinality({k \in DOMAIN evs : evs[k].Severity = sev})]

\* sendSlackSummary's fields: the four named severities that occur.
SlackFields(counts) ==
    [sev \in DOMAIN counts \cap {"CRITICAL", "HIGH", "MEDIUM", "LOW"} |-> counts[sev]]

\* GetUnsynced(channel): the rows whose delivery-tracking flag is false.
GetUnsyncedVulnerabilities(d, s) == {d[i] : i \in DOMAIN d \ s}

\* A *SaasResult; NilResult is the nil pointer.
NilResult == [nil |-> TRUE, SyncedIDs |-> {}, FailedIDs |-> {}, Err |-> FALSE]

\* The remote-sync POST of the events evs when the remote end durably
\* accepts the ids in acc: {syncedIDs, failedIDs, err}.
SendSaas(evs, acc) ==
    LET ids == {e.ID : e \in evs}
    IN [nil |-> FALSE, SyncedIDs |-> ids \cap acc, FailedIDs |-> ids \ acc,
        Err |-> ids \ acc # {}]

\* One delivery: the step of Server.poll that made it, the channel, and
\* what was sent: the events themselves, or a summary (the total and the
\* counts by severity).
Delivery(step, channel, kind, evs, total, counts) ==
    [step |-> step, channel |-> channel, kind |-> kind, events |-> evs,
     total |-> total, bySeverity |-> counts]

\* A result as handleSaasResult received it from the step.
Handled(step, result) == [step |-> step, result |-> result]

\* Mutant: the failed ids are marked as well.
handleSaasResultMarksFailed(s, result) ==
    IF result.nil THEN s
    ELSE MarkSaasSynced(s, result.SyncedIDs \cup result.FailedIDs)

handleSaasResult(s, result) ==
    IF result.nil THEN s
    ELSE IF result.SyncedIDs # {} THEN MarkSaasSynced(s, result.SyncedIDs)
    ELSE s

\* Mutant: the retry sends the unsynced OPEN rows only.
retrySaasSyncOpenOnly(d, s, acc) ==
    LET unsynced == {r \in GetUnsyncedVulnerabilities(d, s) : r.state = StateOpen}
        evs == {RetryEvent(r) : r \in unsynced}
        result == SendSaas(evs, acc)
    IN IF unsynced = {} THEN [synced |-> s, sent |-> <<>>, results |-> <<>>]
       ELSE [synced |-> handleSaasResult(s, result),
             sent |-> <<Delivery("retry", "saas", "events", evs, Cardinality(evs), <<>>)>>,
             results |-> <<Handled("retry", result)>>]

\* Mutant: the retry sends every row, synced or not.
retrySaasSyncSendsAll(d, s, acc) ==
    LET evs == {RetryEvent(d[i]) : i \in DOMAIN d}
        result == SendSaas(evs, acc)
    IN IF evs = {} THEN [synced |-> s, sent |-> <<>>, results |-> <<>>]
       ELSE [synced |-> handleSaasResult(s, result),
             sent |-> <<Delivery("retry", "saas", "events", evs, Cardinality(evs), <<>>)>>,
             results |-> <<Handled("retry", result)>>]

retrySaasSync(d, s, acc) ==
    LET unsynced == GetUnsyncedVulnerabilities(d, s)
        evs == {RetryEvent(r) : r \in unsynced}
        result == SendSaas(evs, acc)
    IN IF unsynced = {} THEN [synced |-> s, sent |-> <<>>, results |-> <<>>]
       ELSE [synced |-> handleSaasResult(s, result),
             sent |-> <<Delivery("retry", "saas", "events", evs, Cardinality(evs), <<>>)>>,
             results |-> <<Handled("retry", result)>>]

\* The channels a Notifier can be configured with, in the order Notify and
\* NotifyInitialized try them.
Channels == <<"slack", "webhook", "saas">>

\* errs after the three `if n.config.X != ""` blocks: the enabled channels
\* whose send returned an error, in the order of the blocks.
ChannelErrs(cfg, failed) ==
    SelectSeq(Channels, LAMBDA ch : cfg[ch] /\ ch \in failed)

\* Mutant: NotifyInitialized summarises the events at or above the threshold.
NotifyInitializedFiltered(evs, cfg, failing) ==
    LET filtered == filterBySeverity(evs, cfg.minSeverity)
        counts == countBySeverity(filtered)
        one(on, ch, c) ==
            IF on THEN <<Delivery("initialized", ch, "summary", {}, Len(filtered), c)>>
            ELSE <<>>
    IN [sent |-> one(cfg.slack, "slack", SlackFields(counts))
                 \o one(cfg.webhook, "webhook", counts)
                 \o one(cfg.saas, "saas", counts),
        result |-> NilResult,
        errs |-> ChannelErrs(cfg, failing)]

\* NotifyInitialized: a summary to every enabled channel, unfiltered.
\* failing holds the channels whose POST fails.  The error it returns is
\* nil exactly when errs is empty.
NotifyInitialized(evs, cfg, failing) ==
    LET counts == countBySeverity(evs)
        one(on, ch, c) ==
            IF on THEN <<Delivery("initialized", ch, "summary", {}, Len(evs), c)>>
            ELSE <<>>
    IN [sent |-> one(cfg.slack, "slack", SlackFields(counts))
                 \o one(cfg.webhook, "webhook", counts)
                 \o one(cfg.saas, "saas", counts),
        result |-> NilResult,
        errs |-> ChannelErrs(cfg, failing)]

\* Mutant: Notify returns at the first channel that fails.
NotifyStopsAtFailure(evs, cfg, acc, failing) ==
    LET filtered == filterBySeverity(evs, cfg.minSeverity)
        result == IF cfg.saas THEN SendSaas(Range(filtered), acc) ELSE NilResult
        failed == failing \cup (IF result.Err THEN {"saas"} ELSE {})
        errs == ChannelErrs(cfg, failed)
        stop == IF errs = <<>> THEN 3
                ELSE CHOOSE i \in 1..3 : Channels[i] = errs[1]
        one(i) ==
            IF cfg[Channels[i]] /\ i <= stop
            THEN <<Delivery("notify", Channels[i], "events", Range(filtered),
                            Len(filtered), <<>>)>>
            ELSE <<>>
    IN IF filtered = <<>> THEN [sent |-> <<>>, result |-> NilResult, errs |-> <<>>]
       ELSE [sent |-> one(1) \o one(2) \o one(3),
             result |-> IF stop = 3 THEN result ELSE NilResult,
             errs |-> IF errs = <<>> THEN <<>> ELSE <<errs[1]>>]

\* Notify: the events at or above the threshold to every enabled channel.
\* failing holds the channels whose POST fails; the remote-sync POST fails
\* when the remote end does not accept every id.
Notify(evs, cfg, acc, failing) ==
    LET filtered == filterBySeverity(evs, cfg.minSeverity)
        one(on, ch) ==
            IF on
            THEN <<Delivery("notify", ch, "events", Range(filtered), Len(filtered), <<>>)>>
            ELSE <<>>
        result == IF cfg.saas THEN SendSaas(Range(filtered), acc) ELSE NilResult
        failed == failing \cup (IF result.Err THEN {"saas"} ELSE {})
    IN IF filtered = <<>> THEN [sent |-> <<>>, result |-> NilResult, errs |-> <<>>]
       ELSE [sent |-> one(cfg.slack, "slack") \o one(cfg.webhook, "webhook")
                      \o one(cfg.saas, "saas"),
             result |-> result,
             errs |-> ChannelErrs(cfg, failed)]

\* Mutant: Server.poll goes on after Poll returned an error.
AfterPollIgnoresError(err) == "notify"

\* Server.poll after Poll returned: an error ends the cycle.
AfterPoll(err) == IF err THEN "return" ELSE "notify"

\* The call of a Notifier entry point and its argument.
Invocation(fn, evs) == [fn |-> fn, events |-> evs]

\* Mutant: the first cycle sends the incremental notification.
FirstPollBranchNotify(fp, evs) ==
    IF evs # <<>> THEN "Notify" ELSE "none"

\* Mutant: every cycle with events sends the summary.
FirstPollBranchSummary(fp, evs) ==
    IF evs # <<>> THEN "NotifyInitialized" ELSE "none"

\* Mutant: the first cycle sends the summary with or without events.
FirstPollBranchResumeSummary(fp, evs) ==
    IF fp THEN "NotifyInitialized"
    ELSE IF evs # <<>> THEN "Notify" ELSE "none"

\* Server.poll's choice of the Notifier entry point, from firstPoll and
\* len(events) > 0.
FirstPollBranch(fp, evs) ==
    IF fp
    THEN IF evs # <<>> THEN "NotifyInitialized" ELSE "none"
    ELSE IF evs # <<>> THEN "Notify" ELSE "none"

\* Server.poll after a successful Poll: what it leaves in the flag column,
\* what it delivers, and firstPoll.  accRetry and accNotify are the ids the
\* remote end accepts in the retry and in the notification.  The Notifier
\* logs the error of a channel whose POST fails and tries the next channel;
\* poll keeps nothing of it, so the deliveries, the result and the flags are
\* those of a call in which the chat and webhook POSTs succeed (a
\* remote-sync failure is in the result, through accNotify).
PollNotify(d, s, fp, evs, cfg, accRetry, accNotify) ==
    IF ~HasNotifications(cfg)
    THEN [synced |-> s, sent |-> <<>>, firstPoll |-> fp,
          invoked |-> NoInvocation, results |-> <<>>]
    ELSE
        LET r == IF cfg.saas THEN retrySaasSync(d, s, accRetry)
                 ELSE [synced |-> s, sent |-> <<>>, results |-> <<>>]
            fn == FirstPollBranch(fp, evs)
            n == IF fn = "NotifyInitialized" THEN NotifyInitialized(evs, cfg, {})
                 ELSE Notify(evs, cfg, accNotify, {})
        IN IF fn = "none"
           THEN [synced |-> r.synced, sent |-> r.sent, firstPoll |-> FALSE,
                 invoked |-> NoInvocation, results |-> r.results]
           ELSE [synced |-> handleSaasResult(r.synced, n.result),
                 sent |-> r.sent \o n.sent, firstPoll |-> FALSE,
                 invoked |-> Invocation(fn, evs),
                 results |-> Append(r.results,
                                    Handled(IF fn = "Notify" THEN "notify" ELSE "initialized",
                                            n.result))]

\* New: the store is open and empty, the poll loop is about to run the
\* initial poll.
Init ==
    /\ db = <<>>
    /\ synced = {}
    /\ now = 0
    /\ last = NoCall
    /\ prev = NoPrev
    /\ config \in Configs
    /\ loop = "initial"
    /\ pc = "poll"
    /\ firstPoll = TRUE
    /\ ready = FALSE
    /\ cands = <<>>
    /\ seen = {}
    /\ events = <<>>
    /\ pollErr = FALSE
    /\ sent = <<>>
    /\ cycleStart = [db |-> <<>>, synced |-> {}, firstPoll |-> TRUE, lastScan |-> NULL]
    /\ invoked = NoInvocation
    /\ results = <<>>
    /\ calls = <<>>
    /\ race = NoRace
    /\ arg = <<>>
    /\ out = NoOut
    /\ proc = "running"
    /\ tick = FALSE
    /\ http = NoRequest
    /\ inFlight = 1
    /\ crash = NoCrash

\* Poll, step 1: the Scanner Source returns the current findings.
PollFetchOK ==
    /\ proc = "running"
    /\ pc = "poll"
    /\ now < MaxPollTime
    /\ pc' = "reconcile"
    /\ \E F \in ScanResults : \E order \in Orders(F) :
          /\ cands' = order
          /\ out' = [op |-> "Poll", scan |-> F, isNew |-> {}, fixed |-> {}]
    /\ UNCHANGED <<storeVars, config, loop, firstPoll, ready, seen, events, pollErr,
                   sent, cycleStart, invoked, results, concVars, arg, runVars>>

\* Poll, step 1: the fetch fails; Poll returns the error.
PollFetchFail ==
    /\ proc = "running"
    /\ pc = "poll"
    /\ pollErr' = TRUE
    /\ pc' = AfterPoll(TRUE)
    /\ UNCHANGED <<storeVars, config, loop, firstPoll, ready, cands, seen, events,
                   sent, cycleStart, invoked, results, concVars, callVars, runVars>>

\* Mutant: a NEW event for every candidate.
EventsAfterUpsertAlways(evs, v, isNew) == Append(evs, NewEvent(v))

\* Poll, step 2: the event list after the Upsert of the candidate v.
EventsAfterUpsert(evs, v, isNew) ==
    IF isNew THEN Append(evs, NewEvent(v)) ELSE evs

\* Poll, step 2: Upsert of the next candidate; a NEW event if isNew.
PollUpsert ==
    /\ proc = "running"
    /\ pc = "reconcile"
    /\ cands # <<>>
    /\ now < MaxPollTime
    /\ LET v == Head(cands)
       IN /\ RunUpsert(v)
          /\ events' = EventsAfterUpsert(events, v,
                                         UpsertVulnerability(db, v, now + 1).isNew)
          /\ seen' = seen \cup {v.ID}
          /\ out' = [out EXCEPT !.isNew = IF UpsertVulnerability(db, v, now + 1).isNew
                                          THEN @ \cup {v} ELSE @]
    /\ cands' = Tail(cands)
    /\ UNCHANGED <<serverVars, pollErr, sent, cycleStart, invoked, results, concVars,
                   arg, runVars>>

\* Poll, steps 3 and 4: MarkFixed with the fingerprints seen, a FIXED event
\* for every row it returns, in the order the rows come back.
PollMarkFixed ==
    /\ proc = "running"
    /\ pc = "reconcile"
    /\ cands = <<>>
    /\ now < MaxPollTime
    /\ RunMarkFixed(seen)
    /\ \E order \in Orders(MarkFixed(db, seen, now + 1).fixed) :
          events' = events \o [k \in DOMAIN order |-> FixedEvent(order[k])]
    /\ out' = [out EXCEPT !.fixed = MarkFixed(db, seen, now + 1).fixed]
    /\ pc' = AfterPoll(FALSE)
    /\ UNCHANGED <<config, loop, firstPoll, ready, cands, seen, pollErr, sent, cycleStart,
                   invoked, results, concVars, arg, runVars>>

\* Server.poll after Poll: the retry of the unsynced events and the
\* notification policy.
ServerNotify ==
    /\ proc = "running"
    /\ pc = "notify"
    /\ \E accRetry \in SUBSET Ids : \E accNotify \in SUBSET Ids :
          LET r == PollNotify(db, synced, firstPoll, events, config, accRetry, accNotify)
          IN /\ synced' = r.synced
             /\ sent' = r.sent
             /\ firstPoll' = r.firstPoll
             /\ invoked' = r.invoked
             /\ results' = r.results
    /\ pc' = "return"
    /\ UNCHANGED <<db, now, last, prev, config, loop, ready, cands, seen, events,
                   pollErr, cycleStart, concVars, callVars, runVars>>

\* Mutant: the loop ends when the cycle failed.
AfterCycleStopsOnError(err) == IF err THEN "stopped" ELSE "idle"

\* runPollLoop after s.poll returned: s.poll returns nothing, the loop goes
\* (back) to its select whether the cycle failed or not.
AfterCycle(err) == "idle"

\* Mutant: ready says whether the cycle that returned was the initial one.
ReadyOnlyAfterInitial(lp, rdy) == lp = "initial"

\* s.ready after s.poll returned: the initial poll is followed by
\* s.ready.Store(true), the polls of the loop by nothing.
ReadyAfterPoll(lp, rdy) == IF lp = "initial" THEN TRUE ELSE rdy

\* runPollLoop after s.poll returned: the initial poll sets ready.
PollReturn ==
    /\ proc = "running"
    /\ pc = "return"
    /\ pc' = AfterCycle(pollErr)
    /\ ready' = ReadyAfterPoll(loop, ready)
    /\ loop' = "ticker"
    /\ inFlight' = inFlight - 1
    /\ UNCHANGED <<storeVars, config, firstPoll, cycleVars, concVars, callVars, proc, tick,
                   http, crash>>

\* The process is started again on the same store, after it stopped
\* between two cycles, exited or crashed: New sets firstPoll, ready is
\* false until the initial poll is over.
Restart ==
    /\ \/ proc = "running" /\ pc = "idle"
       \/ proc \in {"exited", "crashed"}
    /\ proc' = "running"
    /\ loop' = "initial"
    /\ pc' = "poll"
    /\ firstPoll' = TRUE
    /\ ready' = FALSE
    /\ cands' = <<>>
    /\ seen' = {}
    /\ events' = <<>>
    /\ pollErr' = FALSE
    /\ sent' = <<>>
    /\ cycleStart' = [db |-> db, synced |-> synced, firstPoll |-> TRUE,
                      lastScan |-> NULL]
    /\ invoked' = NoInvocation
    /\ results' = <<>>
    /\ tick' = FALSE
    /\ http' = NoRequest
    /\ inFlight' = 1
    /\ out' = NoOut
    /\ UNCHANGED <<storeVars, config, concVars, arg, crash>>

\* Mutant: the loop starts a cycle on a tick without waiting for s.poll.
AtSelectAlways(p) == TRUE

\* runPollLoop is at its select: the call of s.poll has returned.
AtSelect(p) == p = "idle"

\* runPollLoop: the select receives a tick (one that waited in ticker.C or
\* the next one) and the next cycle begins.
TickerFire ==
    /\ proc = "running"
    /\ AtSelect(pc)
    /\ loop = "ticker"
    /\ pc' = "poll"
    /\ cands' = <<>>
    /\ seen' = {}
    /\ events' = <<>>
    /\ pollErr' = FALSE
    /\ sent' = <<>>
    /\ cycleStart' = [db |-> db, synced |-> synced, firstPoll |-> firstPoll,
                      lastScan |-> IF out.op = "Poll" /\ ~pollErr
                                   THEN Some(out.scan) ELSE cycleStart.lastScan]
    /\ invoked' = NoInvocation
    /\ results' = <<>>
    /\ tick' = FALSE
    /\ inFlight' = inFlight + 1
    /\ out' = NoOut
    /\ UNCHANGED <<storeVars, config, loop, firstPoll, ready, concVars, arg, proc,
                   http, crash>>

Next ==
    \/ PollFetchOK
    \/ PollFetchFail
    \/ PollUpsert
    \/ PollMarkFixed
    \/ ServerNotify
    \/ PollReturn
    \/ TickerFire
    \/ Restart

Spec == Init /\ [][Next]_vars

\* ================================================= the process (Server.Run)
\* Run starts the health server and the poll loop and waits for a signal or
\* for the parent's cancellation (SpecRun); the process can also crash in
\* the middle of a cycle and be started again (SpecCrash).  The process is
\* followed for MaxRunCalls store calls in SpecRun and, across one crash,
\* for MaxCrashCalls store calls in SpecCrash.
MaxRunCalls == 2
MaxCrashCalls == 3

\* The clock when the process starts.
RunStart == MaxPollTime - MaxRunCalls
CrashStart == MaxPollTime - MaxCrashCalls

\* chat off, webhook and remote-sync on, every severity notified.
RunConfig == [slack |-> FALSE, webhook |-> TRUE, saas |-> TRUE, minSeverity |-> "LOW"]

\* The stores the process starts on: empty, or one row that an earlier
\* process inserted at time 0 and, if FIXED, marked fixed at time 1.
RunStores ==
    LET v == CHOOSE c \in Candidates : c.CVE = "CVE-1" /\ c.Severity = "LOW"
                                       /\ c.Image = "img:1"
        open == InsertRow(<<>>, v, 0)
    IN {<<>>, open, MarkFixed(open, {}, 1).db}

\* The process starts (server.New, then Run) on a store st with the
\* configuration cfg when the clock shows t.
Started(st, cfg, t) ==
    /\ db = st
    /\ synced = {}
    /\ now = t
    /\ last = NoCall
    /\ prev = NoPrev
    /\ config = cfg
    /\ loop = "initial"
    /\ pc = "poll"
    /\ firstPoll = TRUE
    /\ ready = FALSE
    /\ cands = <<>>
    /\ seen = {}
    /\ events = <<>>
    /\ pollErr = FALSE
    /\ sent = <<>>
    /\ cycleStart = [db |-> st, synced |-> {}, firstPoll |-> TRUE, lastScan |-> NULL]
    /\ invoked = NoInvocation
    /\ results = <<>>
    /\ calls = <<>>
    /\ race = NoRace
    /\ arg = <<>>
    /\ out = NoOut
    /\ proc = "running"
    /\ tick = FALSE
    /\ http = NoRequest
    /\ inFlight = 1
    /\ crash = NoCrash

\* A fresh install with webhook and remote-sync.
RunInit == Started(<<>>, RunConfig, RunStart)

\* A process without channels on a store an earlier process may have filled.
CrashInit == \E st \in RunStores : Started(st, NoConfig, CrashStart)

\* Poll, steps 2 and 3: a store call (Upsert or MarkFixed) returns a query
\* error; it changed nothing and Poll returns the error.
PollStoreFail ==
    /\ proc = "running"
    /\ pc = "reconcile"
    /\ pollErr' = TRUE
    /\ pc' = AfterPoll(TRUE)
    /\ UNCHANGED <<storeVars, config, loop, firstPoll, ready, cands, seen, events,
                   sent, cycleStart, invoked, results, concVars, callVars, runVars>>

\* The ticker delivers a tick while s.poll has not returned: it waits in
\* ticker.C, which holds one tick.
TickerTick ==
    /\ proc = "running"
    /\ loop = "ticker"
    /\ pc # "idle"
    /\ ~tick
    /\ tick' = TRUE
    /\ UNCHANGED <<storeVars, serverVars, cycleVars, concVars, callVars, proc, http,
                   inFlight, crash>>

\* Mutant: /readyz answers 200 before the first cycle has returned.
HealthStatusAlwaysOK(path, isReady) == 200

\* The answer of the health server to a GET of the path.
HealthStatus(path, isReady) ==
    IF path = "/healthz" THEN 200
    ELSE IF isReady THEN 200 ELSE 503

\* runHealthServer: a request to /healthz or /readyz is answered.
HealthRequest ==
    /\ proc = "running"
    /\ \E path \in {"/healthz", "/readyz"} :
          http' = [path |-> path, status |-> HealthStatus(path, ready), ready |-> ready]
    /\ UNCHANGED <<storeVars, serverVars, cycleVars, concVars, callVars, proc, tick,
                   inFlight, crash>>

\* Server.Run: a termination signal or the parent's cancellation arrives;
\* Run cancels the tasks, closes the store and returns nil, and the process
\* exits (cmd/serve.go returns what Run returns).  Run does not wait for
\* the poll loop: the select is followed by cancel(), s.db.Close() and the
\* return, whatever the position of s.poll.
Shutdown ==
    /\ proc = "running"
    /\ proc' = "exited"
    /\ UNCHANGED <<storeVars, serverVars, cycleVars, concVars, callVars, tick, http,
                   inFlight, crash>>

\* The process dies between the first store call of a cycle and MarkFixed;
\* crash keeps the store the cycle began on, the scan it was reconciling
\* and the store it leaves.  One crash is followed.
Crash ==
    /\ proc = "running"
    /\ pc = "reconcile"
    /\ ~crash.cut
    /\ proc' = "crashed"
    /\ crash' = [cut |-> TRUE, db |-> cycleStart.db, scan |-> out.scan, stale |-> db]
    /\ UNCHANGED <<storeVars, serverVars, cycleVars, concVars, callVars, tick, http,
                   inFlight>>

RunNext ==
    \/ PollFetchOK
    \/ PollFetchFail
    \/ PollUpsert
    \/ PollMarkFixed
    \/ PollStoreFail
    \/ ServerNotify
    \/ PollReturn
    \/ TickerFire
    \/ TickerTick
    \/ HealthRequest
    \/ Shutdown

SpecRun == RunInit /\ [][RunNext]_vars

CrashNext ==
    \/ PollFetchOK
    \/ PollUpsert
    \/ PollMarkFixed
    \/ ServerNotify
    \/ PollReturn
    \/ Crash
    \/ Restart

SpecCrash == CrashInit /\ [][CrashNext]_vars

\* ================================================== Notify on its own
\* The longest event list handed to Notify.
MaxEvents == 2

\* The severities a scanner report carries, and two it does not define.
AllSeverities == {"CRITICAL", "HIGH", "MEDIUM", "LOW", "UNKNOWN", ""}

\* The values of the minimum notify severity.
MinSeverities == {"CRITICAL", "HIGH", "MEDIUM", "LOW"}

FilterEvents ==
    {[ID |-> generateID("CVE-1", "ns/deploy/a"), Type |-> ty, CVE |-> "CVE-1",
      Workload |-> "ns/deploy/a", Severity |-> sev, Image |-> "img:1"] :
        ty \in {"NEW", "FIXED"}, sev \in AllSeverities}

EventLists == UNION {[1..n -> FilterEvents] : n \in 0..MaxEvents}

FilterConfigs ==
    {[slack |-> sl, webhook |-> wh, saas |-> sa, minSeverity |-> m] :
        sl \in BOOLEAN, wh \in BOOLEAN, sa \in BOOLEAN, m \in MinSeverities}

\* A Notifier with its configuration, and the events of one call.
FilterInit ==
    /\ db = <<>>
    /\ synced = {}
    /\ now = 0
    /\ last = NoCall
    /\ prev = NoPrev
    /\ config \in FilterConfigs
    /\ loop = "none"
    /\ pc = "filter"
    /\ firstPoll = FALSE
    /\ ready = FALSE
    /\ cands = <<>>
    /\ seen = {}
    /\ events \in EventLists
    /\ pollErr = FALSE
    /\ sent = <<>>
    /\ cycleStart = NoCycle
    /\ invoked = NoInvocation
    /\ results = <<>>
    /\ calls = <<>>
    /\ race = NoRace
    /\ arg = <<>>
    /\ out = NoOut
    /\ proc = "none"
    /\ tick = FALSE
    /\ http = NoRequest
    /\ inFlight = 0
    /\ crash = NoCrash

\* Notify(ctx, events): the deliveries it makes, the result and the error
\* it returns.
CallNotify ==
    /\ pc = "filter"
    /\ \E acc \in SUBSET {e.ID : e \in Range(events)} :
       \E failing \in SUBSET {"slack", "webhook"} :
          LET n == Notify(events, config, acc, failing)
          IN /\ sent' = n.sent
             /\ results' = <<Handled("notify", n.result)>>
             /\ out' = [op |-> "Notify",
                        failed |-> failing \cup (IF n.result.Err THEN {"saas"} ELSE {}),
                        errs |-> n.errs, err |-> n.errs # <<>>]
    /\ invoked' = Invocation("Notify", events)
    /\ pc' = "done"
    /\ UNCHANGED <<storeVars, config, loop, firstPoll, ready, cands, seen, events,
                   pollErr, cycleStart, concVars, arg, runVars>>

\* NotifyInitialized(ctx, events): the deliveries it makes and the error it
\* returns.
CallNotifyInitialized ==
    /\ pc = "filter"
    /\ \E failing \in SUBSET Range(Channels) :
          LET n == NotifyInitialized(events, config, failing)
          IN /\ sent' = n.sent
             /\ results' = <<Handled("initialized", n.result)>>
             /\ out' = [op |-> "NotifyInitialized", failed |-> failing,
                        errs |-> n.errs, err |-> n.errs # <<>>]
    /\ invoked' = Invocation("NotifyInitialized", events)
    /\ pc' = "done"
    /\ UNCHANGED <<storeVars, config, loop, firstPoll, ready, cands, seen, events,
                   pollErr, cycleStart, concVars, arg, runVars>>

FilterNext ==
    \/ CallNotify
    \/ CallNotifyInitialized

SpecFilter == FilterInit /\ [][FilterNext]_vars

\* ================================================ two concurrent Upserts
Callers == {"A", "B"}

\* The stores two calls for one fingerprint can begin on: the fingerprint
\* is absent, stored OPEN (inserted at time 1) or stored FIXED (at time 2).
StartStores ==
    {<<>>}
    \cup {InsertRow(<<>>, v, 1) : v \in Candidates}
    \cup {markAllFixed(InsertRow(<<>>, v, 1), 2).db : v \in Candidates}

ConcInit ==
    /\ db \in StartStores
    /\ synced = {}
    /\ now = 2
    /\ last = NoCall
    /\ prev = NoPrev
    /\ config = NoConfig
    /\ loop = "none"
    /\ pc = "none"
    /\ firstPoll = FALSE
    /\ ready = FALSE
    /\ cands = <<>>
    /\ seen = {}
    /\ events = <<>>
    /\ pollErr = FALSE
    /\ sent = <<>>
    /\ cycleStart = NoCycle
    /\ invoked = NoInvocation
    /\ results = <<>>
    /\ \E a, b \in Candidates :
          /\ a.ID = b.ID
          /\ calls = [c \in Callers |->
                        [pc |-> "lookup", v |-> IF c = "A" THEN a ELSE b,
                         existing |-> "", isNew |-> FALSE, err |-> NoErr, t |-> 0]]
    /\ race = [start |-> db, interleaved |-> FALSE]
    /\ arg = <<>>
    /\ out = NoOut
    /\ proc = "none"
    /\ tick = FALSE
    /\ http = NoRequest
    /\ inFlight = 0
    /\ crash = NoCrash

\* The call's first statement: SELECT state ... WHERE id = v.ID.
ConcLookup(c) ==
    /\ calls[c].pc = "lookup"
    /\ calls' = [calls EXCEPT ![c].pc = "write",
                              ![c].existing = SelectState(db, calls[c].v.ID)]
    /\ UNCHANGED <<storeVars, serverVars, cycleVars, race, callVars, runVars>>

\* The call's second statement, chosen by what the lookup returned, run on
\* the table as it is now; then the call returns.
ConcWrite(c) ==
    /\ calls[c].pc = "write"
    /\ LET r == UpsertWrite(db, calls[c].v, calls[c].existing, now + 1)
       IN /\ db' = r.db
          /\ calls' = [calls EXCEPT ![c].pc = "done", ![c].isNew = r.isNew,
                                    ![c].err = r.err, ![c].t = now + 1]
    /\ now' = now + 1
    /\ race' = [race EXCEPT !.interleaved =
                    race.interleaved \/ \E o \in Callers \ {c} : calls[o].pc = "write"]
    /\ UNCHANGED <<synced, last, prev, serverVars, cycleVars, callVars, runVars>>

ConcNext == \E c \in Callers : ConcLookup(c) \/ ConcWrite(c)

SpecConc == ConcInit /\ [][ConcNext]_vars

\* ====================================================== the store's claims
\* The rows MarkFixed(currentIDs) has to transition in the store d.
OpenNotIn(d, currentIDs) ==
    {i \in DOMAIN d : d[i].state = StateOpen /\ i \notin currentIDs}

\* C2: in every store state every row satisfies: state = FIXED implies
\* fixed_at is set, and state = OPEN implies fixed_at is NULL.
C2_StateFixedAtInvariant ==
    \A i \in DOMAIN db :
        /\ db[i].state \in {StateOpen, StateFixed}
        /\ db[i].state = StateFixed => db[i].fixed_at # NULL
        /\ db[i].state = StateOpen => db[i].fixed_at = NULL

\* C2's case: a row that was FIXED has just been reopened while another row
\* is FIXED.
C2_Witness ==
    /\ last.op = "Upsert"
    /\ last.v.ID \in DOMAIN last.pre
    /\ last.pre[last.v.ID].state = StateFixed
    /\ \E i \in DOMAIN db : db[i].state = StateFixed

\* C3: MarkFixed(currentIDs) turns exactly the rows that are OPEN and not in
\* currentIDs into FIXED rows with fixed_at = the current time, changes no
\* other row, and returns exactly those rows; with currentIDs empty these
\* are all the OPEN rows.
C3_MarkFixedExact ==
    last.op = "MarkFixed" =>
        LET hit == OpenNotIn(last.pre, last.ids)
        IN /\ DOMAIN db = DOMAIN last.pre
           /\ \A i \in hit :
                 db[i] = [last.pre[i] EXCEPT !.state = StateFixed,
                                             !.fixed_at = Some(last.t)]
           /\ \A i \in DOMAIN db \ hit : db[i] = last.pre[i]
           /\ {r.id : r \in last.fixed} = hit
           /\ Cardinality(last.fixed) = Cardinality(hit)
           /\ \A r \in last.fixed :
                 /\ r.state = StateFixed
                 /\ r.fixed_at = Some(last.t)
                 /\ r.cve = last.pre[r.id].cve
                 /\ r.workload = last.pre[r.id].workload
                 /\ r.severity = last.pre[r.id].severity
                 /\ r.image = last.pre[r.id].image
                 /\ r.first_seen = last.pre[r.id].first_seen
           /\ last.ids = {} =>
                 hit = {i \in DOMAIN last.pre : last.pre[i].state = StateOpen}

\* C3's case: a MarkFixed with a non-empty currentIDs that met an OPEN row
\* outside currentIDs, and marked it, and a FIXED row.
C3_Witness ==
    /\ last.op = "MarkFixed"
    /\ last.ids # {}
    /\ last.fixed # {}
    /\ \E i \in DOMAIN last.pre : last.pre[i].state = StateFixed

\* C3's second case: MarkFixed({}) with two OPEN rows.
C3_WitnessEmpty ==
    /\ last.op = "MarkFixed"
    /\ last.ids = {}
    /\ Cardinality(last.fixed) = 2

\* C4: MarkFixed with a non-empty currentIDs leaves every row whose id is
\* in currentIDs unchanged in every column.
C4_MarkFixedFrame ==
    (last.op = "MarkFixed" /\ last.ids # {}) =>
        \A i \in last.ids :
            /\ i \in DOMAIN db <=> i \in DOMAIN last.pre
            /\ i \in DOMAIN db => db[i] = last.pre[i]

\* C4's case: a MarkFixed that fixed a row and was given the id of an OPEN row.
C4_Witness ==
    /\ last.op = "MarkFixed"
    /\ last.fixed # {}
    /\ \E i \in last.ids \cap DOMAIN last.pre : last.pre[i].state = StateOpen

\* C5: Upsert(f) of an absent fingerprint followed immediately by Upsert(f)
\* returns isNew = true, then isNew = false, and last_seen after the second
\* call is strictly greater than after the first.
C5_UpsertTwice ==
    (/\ last.op = "Upsert"
     /\ prev.op = "Upsert"
     /\ prev.id = last.v.ID
     /\ ~prev.wasPresent) =>
        /\ prev.isNew
        /\ ~last.isNew
        /\ db[last.v.ID].last_seen > prev.last_seen

\* C5's case: the second of two Upserts of a fingerprint that was absent.
C5_Witness ==
    /\ last.op = "Upsert"
    /\ prev.op = "Upsert"
    /\ prev.id = last.v.ID
    /\ ~prev.wasPresent

\* C7: Upsert of a fingerprint whose row is OPEN returns isNew = false and
\* writes severity, image and last_seen only: id, cve, workload, state,
\* first_seen, fixed_at and the delivery-tracking flag keep their values,
\* and so does every other row.
C7_UpsertOpenFrame ==
    (/\ last.op = "Upsert"
     /\ last.v.ID \in DOMAIN last.pre
     /\ last.pre[last.v.ID].state = StateOpen) =>
        LET i == last.v.ID
        IN /\ ~last.isNew
           /\ DOMAIN db = DOMAIN last.pre
           /\ db[i].id = last.pre[i].id
           /\ db[i].cve = last.pre[i].cve
           /\ db[i].workload = last.pre[i].workload
           /\ db[i].state = last.pre[i].state
           /\ db[i].first_seen = last.pre[i].first_seen
           /\ db[i].fixed_at = last.pre[i].fixed_at
           /\ (i \in synced <=> i \in last.preSynced)
           /\ db[i].severity = last.v.Severity
           /\ db[i].image = last.v.Image
           /\ db[i].last_seen = last.t
           /\ \A j \in DOMAIN db \ {i} : db[j] = last.pre[j]

\* C7's case: an Upsert of an OPEN row whose flag is set, with another
\* severity and another image.
C7_Witness ==
    /\ last.op = "Upsert"
    /\ last.v.ID \in DOMAIN last.pre
    /\ last.pre[last.v.ID].state = StateOpen
    /\ last.v.ID \in last.preSynced
    /\ last.v.Severity # last.pre[last.v.ID].severity
    /\ last.v.Image # last.pre[last.v.ID].image

\* C8: first_seen is set when the row is created and no later step changes it.
C8_FirstSeenOnce ==
    [][/\ \A i \in DOMAIN db \cap DOMAIN db' : db'[i].first_seen = db[i].first_seen
       /\ \A i \in DOMAIN db' \ DOMAIN db : db'[i].first_seen = now']_vars

\* C8's case: a row created, marked FIXED and reopened, in that order.
C8_Witness ==
    /\ last.op = "Upsert"
    /\ last.v.ID \in DOMAIN last.pre
    /\ last.pre[last.v.ID].state = StateFixed
    /\ db[last.v.ID].first_seen < last.pre[last.v.ID].fixed_at[1]
    /\ db[last.v.ID].last_seen > last.pre[last.v.ID].fixed_at[1]

\* C9: no step removes a row: the set of stored ids only grows.
C9_NeverDeleted ==
    [][DOMAIN db \subseteq DOMAIN db']_vars

\* C9's case: a MarkFixed has fixed a row and the row is still stored.
C9_Witness ==
    /\ last.op = "MarkFixed"
    /\ last.fixed # {}
    /\ \A r \in last.fixed : r.id \in DOMAIN db /\ db[r.id].state = StateFixed

\* ===================================================== the daemon's claims
\* C1: when the Scanner Source fetch fails, the cycle ends with the error
\* and has changed nothing: no row is upserted or marked FIXED, no flag is
\* set, no event is produced and no delivery is made in that cycle.
C1_FetchFailureNoMutation ==
    pollErr =>
        /\ db = cycleStart.db
        /\ synced = cycleStart.synced
        /\ seen = {}
        /\ events = <<>>
        /\ sent = <<>>

\* C1's case: the fetch failed in a cycle that began with an OPEN row whose
\* flag is not set, with the remote-sync channel enabled.
C1_Witness ==
    /\ pollErr
    /\ pc = "idle"
    /\ config.saas
    /\ \E i \in DOMAIN db : db[i].state = StateOpen /\ i \notin synced

\* C6: Upsert of a fingerprint whose row is FIXED makes the row OPEN, clears
\* fixed_at, writes severity, image and last_seen, and returns isNew = true;
\* the events Poll returns hold a NEW event for every row the cycle reopened.
C6_ReopenIsNew ==
    /\ (/\ last.op = "Upsert"
        /\ last.v.ID \in DOMAIN last.pre
        /\ last.pre[last.v.ID].state = StateFixed) =>
           LET i == last.v.ID
           IN /\ last.isNew
              /\ db[i] = [last.pre[i] EXCEPT !.state = StateOpen, !.fixed_at = NULL,
                                             !.severity = last.v.Severity,
                                             !.image = last.v.Image,
                                             !.last_seen = last.t]
              /\ \E k \in DOMAIN events : events[k] = NewEvent(last.v)
    /\ (pc \in {"notify", "return", "idle"} /\ ~pollErr) =>
           \A i \in seen \cap DOMAIN cycleStart.db :
               cycleStart.db[i].state = StateFixed =>
                   /\ db[i].state = StateOpen
                   /\ db[i].fixed_at = NULL
                   /\ \E k \in DOMAIN events :
                         events[k].ID = i /\ events[k].Type = "NEW"

\* C6's case: Poll has returned from a cycle that reopened a FIXED row with
\* another severity and another image.
C6_Witness ==
    /\ pc = "notify"
    /\ \E i \in seen \cap DOMAIN cycleStart.db :
          /\ cycleStart.db[i].state = StateFixed
          /\ db[i].severity # cycleStart.db[i].severity
          /\ db[i].image # cycleStart.db[i].image

\* ================================================== the concurrency claim
\* What C10 says of two finished calls: both returned without error, one
\* row is stored for the fingerprint, the table and the isNew results are
\* those of the two calls run one after the other, and isNew = true was
\* returned by exactly one call when the fingerprint was absent or FIXED.
AsSequential ==
    LET f == calls["A"].v.ID
    IN /\ \A c \in Callers : calls[c].err = NoErr
       /\ f \in DOMAIN db
       /\ \E c1 \in Callers : \E c2 \in Callers \ {c1} :
             LET s1 == UpsertVulnerability(race.start, calls[c1].v, calls[c1].t)
                 s2 == UpsertVulnerability(s1.db, calls[c2].v, calls[c2].t)
             IN /\ calls[c1].t < calls[c2].t
                /\ db = s2.db
                /\ calls[c1].isNew = s1.isNew
                /\ calls[c2].isNew = s2.isNew
       /\ SelectState(race.start, f) # StateOpen =>
             Cardinality({c \in Callers : calls[c].isNew}) = 1

BothDone == \A c \in Callers : calls[c].pc = "done"

\* C10: two Upsert calls for one fingerprint that interleave (both lookups
\* run before either write) both return without error and leave exactly one
\* row for the fingerprint, in the state a sequential execution of the two
\* calls leaves, with isNew = true returned by exactly one of them.
C10_ConcurrentUpsertIdempotent ==
    (race.interleaved /\ BothDone) => AsSequential

\* The same statement of two calls that did not interleave.
C10_SequentialUpsert ==
    (~race.interleaved /\ BothDone) => AsSequential

\* The same statement of two interleaved calls that both found the row OPEN.
C10_InterleavedOnOpenRow ==
    (/\ race.interleaved
     /\ BothDone
     /\ SelectState(race.start, calls["A"].v.ID) = StateOpen) => AsSequential

\* ============================================ delivery tracking (C11-C13)
\* The step of the cycle is over: Server.poll has run its notification part.
Notified == pc = "return" /\ ~pollErr

\* The ids some result of this cycle reported as durably accepted.
AcceptedIDs == UNION {results[k].result.SyncedIDs : k \in DOMAIN results}

\* The ids a result of this cycle reported as failed and no result of the
\* cycle reported as accepted.
FailedIDs ==
    UNION {results[k].result.FailedIDs : k \in DOMAIN results} \ AcceptedIDs

SaasEvents ==
    UNION {sent[k].events : k \in {j \in DOMAIN sent :
                                       sent[j].channel = "saas" /\ sent[j].kind = "events"}}

\* The row i is in the lifecycle state it had when the cycle began.
SameLifecycle(i) ==
    i \in DOMAIN cycleStart.db /\ db[i].state = cycleStart.db[i].state

\* C12: a cycle that begins with the flag of a row set (the remote end
\* accepted the id and MarkSynced stored it) sends no event of that row to
\* the remote-sync channel, unless the cycle changed the row's lifecycle
\* state.
C12_SyncedNotResent ==
    \A e \in SaasEvents :
        (e.ID \in cycleStart.synced) => ~SameLifecycle(e.ID)

\* C12's case: a cycle that sent events to the remote-sync channel while a
\* row whose flag was set stayed in its lifecycle state: the events are of
\* other rows.
C12_Witness ==
    /\ Notified
    /\ SaasEvents # {}
    /\ \E i \in cycleStart.synced :
          /\ SameLifecycle(i)
          /\ i \in seen
          /\ \A e \in SaasEvents : e.ID # i

\* C11: an event whose remote-sync delivery failed stays in the unsynced
\* set (its row is stored with the flag false), so that the retry of a
\* later cycle sends it again until the remote end accepts it.
C11_FailedStaysUnsynced ==
    Notified => \A i \in FailedIDs : i \in DOMAIN db /\ i \notin synced

\* C11 for the events of rows whose flag was false when the cycle began.
C11_FailedNewStaysUnsynced ==
    Notified => \A i \in FailedIDs \ cycleStart.synced : i \in DOMAIN db /\ i \notin synced

\* ============================================ notification policy (C14-C19)
\* Server.poll has returned from the first cycle since the process started.
FirstCycleDone == loop = "initial" /\ pc = "return"

\* Server.poll has returned from a later cycle of the process.
LaterCycleDone == loop = "ticker" /\ pc = "return"

\* The store holds one OPEN row for every fingerprint in ids, and no other row.
OneOpenRowPer(ids) ==
    /\ DOMAIN db = ids
    /\ \A i \in ids : db[i].state = StateOpen /\ db[i].id = i

\* The deliveries of this cycle made by the step `step`.
SentBy(step) == {k \in DOMAIN sent : sent[k].step = step}

\* C14 as stated: the first cycle since process start, begun on an empty
\* store, that produced an event calls NotifyInitialized and not Notify, and
\* leaves one OPEN row per observed fingerprint.
C14_FreshFirstCycle ==
    (FirstCycleDone /\ cycleStart.db = <<>> /\ events # <<>>) =>
        /\ invoked.fn = "NotifyInitialized"
        /\ OneOpenRowPer(seen)

\* C14, amended: the same with at least one channel configured (without a
\* channel Server.poll returns before it calls the Notifier).
C14_FreshFirstCycleWithChannel ==
    (FirstCycleDone /\ cycleStart.db = <<>> /\ events # <<>> /\ HasNotifications(config)) =>
        /\ invoked = Invocation("NotifyInitialized", events)
        /\ SentBy("notify") = {}
        /\ OneOpenRowPer(seen)

\* C14's case: a fresh install whose first cycle observed two fingerprints
\* and sent the summary.
C14_Witness ==
    /\ FirstCycleDone
    /\ cycleStart.db = <<>>
    /\ Len(events) = 2
    /\ HasNotifications(config)
    /\ invoked.fn = "NotifyInitialized"
    /\ SentBy("initialized") # {}

\* C15: the first cycle since process start, begun on a store that already
\* held rows, calls neither NotifyInitialized nor Notify, with or without
\* events.
C15_RestartFirstCycleSilent ==
    (FirstCycleDone /\ cycleStart.db # <<>>) => invoked.fn = "none"

\* C16: after a restart on a store that held rows, a first cycle without
\* events sends neither the initialized summary nor the incremental
\* notification on any channel.
C16_RestartNoEventsSilent ==
    (FirstCycleDone /\ ~pollErr /\ cycleStart.db # <<>> /\ events = <<>>) =>
        /\ invoked.fn = "none"
        /\ SentBy("initialized") = {}
        /\ SentBy("notify") = {}

\* C16's case: the process restarted on a store with an OPEN row, channels
\* are configured and the first cycle found the same row.
C16_Witness ==
    /\ FirstCycleDone
    /\ ~pollErr
    /\ HasNotifications(config)
    /\ cycleStart.firstPoll
    /\ \E i \in DOMAIN cycleStart.db : cycleStart.db[i].state = StateOpen
    /\ seen = DOMAIN cycleStart.db
    /\ events = <<>>

\* The OPEN rows of the cycle's beginning that the scan did not return.
Vanished ==
    {i \in DOMAIN cycleStart.db : cycleStart.db[i].state = StateOpen /\ i \notin seen}

\* What C17 says of a cycle: with an event, Notify is called with the
\* cycle's events, which hold one FIXED event for every OPEN row that is
\* absent from the scan; without events neither entry point is called.
NotifyPolicy ==
    /\ events # <<>> => invoked = Invocation("Notify", events)
    /\ events = <<>> => invoked.fn = "none"
    /\ ~pollErr =>
          \A i \in Vanished :
              /\ Cardinality({k \in DOMAIN events : events[k].ID = i}) = 1
              /\ \E k \in DOMAIN events : events[k].ID = i /\ events[k].Type = "FIXED"
              /\ invoked.fn = "Notify"

\* C17 as stated: every cycle after the first one of the process.
C17_LaterCycleNotify ==
    LaterCycleDone => NotifyPolicy

\* C17, amended: every cycle that begins with firstPoll cleared, that is
\* after the first cycle that succeeded with a channel configured.
C17_LaterCycleNotifyAfterFirstPoll ==
    (LaterCycleDone /\ ~cycleStart.firstPoll) => NotifyPolicy

\* C17's case: a later cycle in which an OPEN row is absent from the scan.
C17_Witness ==
    /\ LaterCycleDone
    /\ ~cycleStart.firstPoll
    /\ ~pollErr
    /\ Vanished # {}
    /\ invoked.fn = "Notify"

\* The rows whose flag was false when the cycle began.
PrevUnsynced == DOMAIN cycleStart.db \ cycleStart.synced

\* The retry of this cycle sent an event for every row in ids.
Retried(ids) ==
    \E k \in SentBy("retry") :
        /\ sent[k].channel = "saas"
        /\ sent[k].kind = "events"
        /\ ids \subseteq {e.ID : e \in sent[k].events}

EnabledChannels ==
    {ch \in {"slack", "webhook", "saas"} :
        \/ ch = "slack" /\ config.slack
        \/ ch = "webhook" /\ config.webhook
        \/ ch = "saas" /\ config.saas}

\* C19: on the first cycle of a fresh install every enabled channel gets
\* one delivery, the summary with the total and the counts by severity, and
\* no channel gets the cycle's events themselves.
C19_FreshInstallSummaryOnly ==
    (FirstCycleDone /\ cycleStart.db = <<>> /\ events # <<>>) =>
        /\ \A ch \in EnabledChannels :
              \E k \in DOMAIN sent :
                  /\ sent[k].channel = ch
                  /\ sent[k].kind = "summary"
                  /\ sent[k].total = Len(events)
                  /\ \A sev \in DOMAIN sent[k].bySeverity :
                        sent[k].bySeverity[sev] = countBySeverity(events)[sev]
                  /\ \A j \in DOMAIN sent : sent[j].channel = ch => j = k
        /\ \A k \in DOMAIN sent : sent[k].kind # "events"

\* C19 for the channels other than remote-sync.
C19_SummaryOnlyOnWebhooks ==
    (FirstCycleDone /\ cycleStart.db = <<>> /\ events # <<>>) =>
        \A ch \in EnabledChannels \ {"saas"} :
            \E k \in DOMAIN sent :
                /\ sent[k].channel = ch
                /\ sent[k].kind = "summary"
                /\ sent[k].total = Len(events)
                /\ \A j \in DOMAIN sent : sent[j].channel = ch => j = k

\* ==================================================== severity filter (C20)
\* The rank the claim gives a severity.
ClaimedRank(sev) ==
    CASE sev = "CRITICAL" -> 1
      [] sev = "HIGH" -> 2
      [] sev = "MEDIUM" -> 3
      [] sev = "LOW" -> 4
      [] OTHER -> 5

\* The events of the call whose rank is at most the threshold's, in order.
Passing ==
    SelectSeq(events, LAMBDA e : ClaimedRank(e.Severity) <= ClaimedRank(config.minSeverity))

\* C20: Notify delivers exactly the events whose severity rank (CRITICAL=1,
\* HIGH=2, MEDIUM=3, LOW=4, anything else=5) is at most the rank of the
\* configured minimum severity, to every enabled channel; with the
\* threshold HIGH, CRITICAL and HIGH pass and MEDIUM, LOW and unknown
\* severities are dropped.
C20_SeverityFilter ==
    (pc = "done" /\ invoked.fn = "Notify") =>
        /\ Passing = <<>> => sent = <<>>
        /\ Passing # <<>> =>
              /\ {sent[k].channel : k \in DOMAIN sent} = EnabledChannels
              /\ \A k \in DOMAIN sent :
                    /\ sent[k].kind = "events"
                    /\ sent[k].events = Range(Passing)
                    /\ sent[k].total = Len(Passing)
        /\ config.minSeverity = "HIGH" =>
              \A k \in DOMAIN sent :
                  sent[k].events =
                      {e \in Range(events) : e.Severity \in {"CRITICAL", "HIGH"}}

\* C20's case: the threshold is HIGH, the call holds a HIGH event and an
\* event of an unknown severity, and the HIGH event alone is delivered.
C20_Witness ==
    /\ pc = "done"
    /\ invoked.fn = "Notify"
    /\ config.minSeverity = "HIGH"
    /\ \E i, j \in DOMAIN events :
          events[i].Severity = "HIGH" /\ events[j].Severity = "UNKNOWN"
    /\ sent # <<>>
    /\ \A k \in DOMAIN sent : \A e \in sent[k].events : e.Severity = "HIGH"

\* ================================================= the store's reads (C29, C30)
RECURSIVE SumOf(_)
\* The sum of the values of a function to the integers.
SumOf(f) ==
    IF DOMAIN f = {} THEN 0
    ELSE LET x == CHOOSE y \in DOMAIN f : TRUE
         IN f[x] + SumOf([z \in DOMAIN f \ {x} |-> f[z]])

\* The rows of the store d in the state st.
RowsIn(d, st) == {d[i] : i \in {j \in DOMAIN d : d[j].state = st}}

\* C29: ListOpen returns exactly the OPEN rows, each once, in ascending
\* severity rank (CRITICAL=1, HIGH=2, MEDIUM=3, LOW=4, any other value=5)
\* and, within a rank, in descending first_seen.
C29_ListOpenOrder ==
    out.op = "GetOpen" =>
        /\ Range(out.rows) = RowsIn(out.pre, StateOpen)
        /\ Len(out.rows) = Cardinality(RowsIn(out.pre, StateOpen))
        /\ \A k \in 1..(Len(out.rows) - 1) :
              LET x == out.rows[k]
                  y == out.rows[k + 1]
              IN /\ ClaimedRank(x.severity) <= ClaimedRank(y.severity)
                 /\ ClaimedRank(x.severity) = ClaimedRank(y.severity) =>
                        x.first_seen >= y.first_seen

\* C29's case: the store holds a FIXED row and two OPEN rows of one
\* severity, and ListOpen returned the two, the newer one first.
C29_Witness ==
    /\ out.op = "GetOpen"
    /\ Len(out.rows) = 2
    /\ out.rows[1].severity = out.rows[2].severity
    /\ out.rows[1].first_seen > out.rows[2].first_seen
    /\ RowsIn(out.pre, StateFixed) # {}

\* C30: Stats reports the number of OPEN rows, the number of FIXED rows
\* (together all the rows) and a breakdown by severity that counts the OPEN
\* rows only and sums to the number of OPEN rows.
C30_StatsCounts ==
    out.op = "GetStats" =>
        LET st == out.stats
            d == out.pre
        IN /\ st.TotalOpen = Cardinality(RowsIn(d, StateOpen))
           /\ st.TotalFixed = Cardinality(RowsIn(d, StateFixed))
           /\ st.TotalOpen + st.TotalFixed = Cardinality(DOMAIN d)
           /\ \A sev \in DOMAIN st.BySeverity :
                 st.BySeverity[sev] =
                     Cardinality({r \in RowsIn(d, StateOpen) : r.severity = sev})
           /\ \A r \in RowsIn(d, StateOpen) : r.severity \in DOMAIN st.BySeverity
           /\ SumOf(st.BySeverity) = st.TotalOpen

\* C30's case: Stats on a store with OPEN rows of two severities and a
\* FIXED row.
C30_Witness ==
    /\ out.op = "GetStats"
    /\ out.stats.TotalOpen = 2
    /\ out.stats.TotalFixed = 1
    /\ Cardinality(DOMAIN out.stats.BySeverity) = 2

\* ---------------------------------------------------------------- C28
WellFormed(report) == report.metadata = "map" /\ report.parses

\* The findings of the reports that can be read, report by report in the
\* order of the list, each vulnerability of a report in its order.
RECURSIVE FindingsOfReadable(_, _)
FindingsOfReadable(reports, scanner) ==
    IF reports = <<>>
    THEN <<>>
    ELSE LET r == reports[Len(reports)]
             rest == FindingsOfReadable(SubSeq(reports, 1, Len(reports) - 1), scanner)
         IN IF WellFormed(r)
            THEN rest \o [i \in 1..Len(r.vulns) |->
                            [ID |-> r.vulns[i],
                             Namespace |-> IF scanner = "cluster-vulns" THEN ""
                                           ELSE r.namespace,
                             ResourceName |-> r.name,
                             ResourceKind |-> IF scanner = "cluster-vulns"
                                              THEN "Cluster" ELSE ""]]
            ELSE rest

\* C28: when the client listed the reports, Scan returns no error and the
\* findings of exactly the reports that have a metadata map and parsable
\* vulnerabilities; a report that lacks either is skipped and the reports
\* after it are still scanned.
C28_MalformedReportSkipped ==
    (out.op = "Scan" /\ ~out.listErr) =>
        /\ out.err = NoErr
        /\ out.findings = FindingsOfReadable(out.reports, out.scanner)

\* A scan of a list with a report without metadata, then a report whose
\* vulnerabilities do not parse, then a readable report with vulnerabilities:
\* the findings of the last one are returned.
C28_Witness ==
    /\ out.op = "Scan"
    /\ ~out.listErr
    /\ Len(out.reports) = 3
    /\ out.reports[1].metadata = "absent"
    /\ out.reports[2].metadata = "map" /\ ~out.reports[2].parses
    /\ WellFormed(out.reports[3]) /\ Len(out.reports[3].vulns) = 2
    /\ Len(out.findings) = 2
    /\ out.err = NoErr

\* ---------------------------------------------------------------- C21
\* The deliveries of the call to the channel ch.
AttemptsTo(ch) == {k \in DOMAIN sent : sent[k].channel = ch}

\* The call has something to deliver: NotifyInitialized always has, Notify
\* has when an event passes the severity threshold.
Delivering == out.op = "NotifyInitialized" \/ Passing # <<>>

\* C21: in Notify and NotifyInitialized a delivery is attempted, once, to
\* every enabled channel (and to no other), whichever channels failed before
\* it; the call returns an error if and only if an enabled channel that was
\* attempted failed.
C21_EveryChannelAttempted ==
    (pc = "done" /\ out.op \in {"Notify", "NotifyInitialized"}) =>
        /\ \A ch \in Range(Channels) :
              Cardinality(AttemptsTo(ch)) = IF config[ch] /\ Delivering THEN 1 ELSE 0
        /\ out.err <=> \E ch \in out.failed : AttemptsTo(ch) # {}

\* C21's case: the three channels are enabled, the one that is tried first
\* fails, the two after it are still tried, and the call returns an error.
C21_Witness ==
    /\ pc = "done"
    /\ out.op = "Notify"
    /\ config.slack /\ config.webhook /\ config.saas
    /\ out.failed = {"slack"}
    /\ AttemptsTo("webhook") # {}
    /\ AttemptsTo("saas") # {}
    /\ out.err

\* ---------------------------------------------------------------- C26
\* The positions of the events of the type ty in the list Poll returned.
EventsOfType(ty) == {k \in DOMAIN events : events[k].Type = ty}

\* C26: the list a Poll returns holds one NEW event for every candidate
\* whose Upsert returned isNew, one FIXED event for every record MarkFixed
\* returned, and nothing else; every NEW event is before every FIXED event.
C26_PollEvents ==
    (pc = "notify" /\ ~pollErr) =>
        /\ \A v \in out.isNew :
              Cardinality({k \in EventsOfType("NEW") : events[k] = NewEvent(v)}) = 1
        /\ \A r \in out.fixed :
              Cardinality({k \in EventsOfType("FIXED") : events[k] = FixedEvent(r)}) = 1
        /\ Len(events) = Cardinality(out.isNew) + Cardinality(out.fixed)
        /\ DOMAIN events = EventsOfType("NEW") \cup EventsOfType("FIXED")
        /\ \A k \in EventsOfType("NEW") : \A l \in EventsOfType("FIXED") : k < l

\* C26's case: a Poll whose Upsert inserted a row and whose MarkFixed
\* returned another row: two events, the NEW one first.
C26_Witness ==
    /\ pc = "notify"
    /\ ~pollErr
    /\ Cardinality(seen) = 1
    /\ Cardinality(out.isNew) = 1
    /\ Cardinality(out.fixed) = 1
    /\ Len(events) = 2
    /\ events[1].Type = "NEW"
    /\ events[2].Type = "FIXED"

\* ============================================ the process's claims (C22-C27)
\* ---------------------------------------------------------------- C22
\* C22: readiness is false from the start of the process until the first
\* call of s.poll has returned and true from then on, whether that cycle
\* failed or not; /readyz answers 503 while it is false and 200 once it is
\* true; /healthz answers 200 in every state.
C22_Readiness ==
    /\ loop = "initial" => ~ready
    /\ loop = "ticker" => ready
    /\ http.path = "/readyz" => http.status = IF http.ready THEN 200 ELSE 503
    /\ http.path = "/readyz" /\ http.ready => ready
    /\ http.path = "/healthz" => http.status = 200

\* C22's case: no cycle has succeeded yet (firstPoll is still set), the
\* last one failed, and /readyz has answered 200.
C22_Witness ==
    /\ loop = "ticker"
    /\ pc = "idle"
    /\ pollErr
    /\ firstPoll
    /\ http = [path |-> "/readyz", status |-> 200, ready |-> TRUE]

\* ---------------------------------------------------------------- C23
\* C23: at most one call of s.poll has begun and not returned; a cycle is
\* in progress exactly when one has, so that a tick that arrives during a
\* cycle waits and the next cycle begins, with every store call of the
\* cycle before it made, only after s.poll returned.
C23_SingleFlight ==
    /\ inFlight \in {0, 1}
    /\ inFlight = 1 <=> pc \in {"poll", "reconcile", "notify", "return"}
    /\ inFlight = 0 <=> pc = "idle"
    /\ pc = "poll" => /\ cycleStart.db = db
                      /\ cands = <<>>
                      /\ seen = {}

\* C23's case: a cycle after the first has made a store call and has not
\* returned when the next tick arrives; the tick waits.
C23_Witness ==
    /\ proc = "running"
    /\ loop = "ticker"
    /\ pc = "reconcile"
    /\ last.op = "Upsert"
    /\ db # cycleStart.db
    /\ tick
    /\ inFlight = 1

\* ---------------------------------------------------------------- C24
\* C24: when the process has exited on a signal or a cancellation, no cycle
\* is cut off: the cycle that was in progress has returned, its Upserts and
\* its MarkFixed applied.
C24_ShutdownCompletesCycle ==
    proc = "exited" => (pc = "idle" /\ inFlight = 0)

\* ---------------------------------------------------------------- C25
\* The cycle failed: the scan or a store call returned an error, or the
\* remote-sync channel reported a failure.
CycleFailed == pollErr \/ \E k \in DOMAIN results : results[k].result.Err

\* C25: after a failed cycle the process is still running and the poll
\* loop is alive: s.poll returns to the loop, and at the loop's select the
\* next tick starts another cycle.  (Only Shutdown ends the process.)
C25_FailedCycleLoopAlive ==
    (proc = "running" /\ CycleFailed /\ pc \notin {"poll", "reconcile", "notify"}) =>
        \/ pc = "return" /\ ENABLED PollReturn
        \/ pc = "idle" /\ ENABLED TickerFire

\* C25's case: a cycle whose remote-sync delivery failed has returned, the
\* process runs and the loop waits for the next tick.
C25_Witness ==
    /\ proc = "running"
    /\ pc = "idle"
    /\ ~pollErr
    /\ \E k \in DOMAIN results : results[k].result.Err
    /\ ENABLED TickerFire

\* ---------------------------------------------------------------- C27
\* What the record invariants say of one row.
RecordInvariant(r) ==
    /\ r.id = generateID(r.cve, r.workload)
    /\ r.state \in {StateOpen, StateFixed}
    /\ r.state = StateFixed <=> r.fixed_at # NULL
    /\ r.first_seen <= r.last_seen

\* The store d is the store d0 with some candidates of the scan upserted and
\* nothing else done: a row is as it was, or it is OPEN with its candidate's
\* severity and image and the first_seen it had.
OnlyStale(d0, d, scan) ==
    /\ DOMAIN d0 \subseteq DOMAIN d
    /\ \A i \in DOMAIN d :
          \/ i \in DOMAIN d0 /\ d[i] = d0[i]
          \/ \E v \in scan :
                /\ v.ID = i
                /\ d[i].state = StateOpen
                /\ d[i].severity = v.Severity
                /\ d[i].image = v.Image
                /\ i \in DOMAIN d0 => d[i].first_seen = d0[i].first_seen

RECURSIVE UpsertAll(_, _, _)
\* The Upserts of the candidates vs, one after the other from the time t.
UpsertAll(d, vs, t) ==
    IF vs = <<>> THEN d
    ELSE UpsertAll(UpsertVulnerability(d, Head(vs), t).db, Tail(vs), t + 1)

\* The store after a cycle over the scan that nothing interrupts.
Uninterrupted(d, scan) ==
    LET order == CHOOSE o \in Orders(scan) : TRUE
    IN MarkFixed(UpsertAll(d, order, 1), {v.ID : v \in scan}, Len(order) + 1).db

\* The record states of a store: what a row says, without its timestamps.
RecordStates(d) ==
    [i \in DOMAIN d |-> [cve |-> d[i].cve, workload |-> d[i].workload,
                         severity |-> d[i].severity, image |-> d[i].image,
                         state |-> d[i].state, fixed |-> d[i].fixed_at # NULL]]

\* C27: after a crash between the Upserts of a cycle and its MarkFixed every
\* row satisfies the record invariants and the store is only stale; the next
\* complete cycle over the same scan leaves the record states an
\* uninterrupted cycle would have left.
C27_CrashBeforeMarkFixed ==
    crash.cut =>
        /\ proc = "crashed" =>
              /\ \A i \in DOMAIN db : RecordInvariant(db[i])
              /\ OnlyStale(crash.db, db, crash.scan)
        /\ (/\ pc = "notify"
            /\ ~pollErr
            /\ cycleStart.db = crash.stale
            /\ out.scan = crash.scan) =>
              RecordStates(db) = RecordStates(Uninterrupted(crash.db, crash.scan))

\* C27's case: the crash came after an Upsert; the cycle of the restarted
\* process over the same scan has marked fixed the row the cut cycle had
\* left OPEN.
C27_Witness ==
    /\ crash.cut
    /\ crash.stale # crash.db
    /\ pc = "notify"
    /\ ~pollErr
    /\ cycleStart.db = crash.stale
    /\ out.scan = crash.scan
    /\ out.fixed # {}

\* =========================================== the cycle's claims (C31-C33)
\* ---------------------------------------------------------------- C31
\* C31: in the list one Poll returns no fingerprint has both a NEW and a
\* FIXED event: MarkFixed is called with exactly the ids that went through
\* Upsert in the cycle, it returns none of them, and their rows are OPEN
\* when Poll returns.
C31_NoNewAndFixed ==
    (pc = "notify" /\ ~pollErr) =>
        /\ last.op = "MarkFixed"
        /\ last.ids = seen
        /\ \A r \in out.fixed : r.id \notin seen
        /\ \A i \in seen : db[i].state = StateOpen
        /\ \A k, l \in DOMAIN events :
              events[k].ID = events[l].ID => events[k].Type = events[l].Type

\* C31's case: a Poll that returned a NEW event for one fingerprint and a
\* FIXED event for another.
C31_Witness ==
    /\ pc = "notify"
    /\ ~pollErr
    /\ seen # {}
    /\ \E k, l \in DOMAIN events :
          /\ events[k].Type = "NEW"
          /\ events[l].Type = "FIXED"
          /\ events[k].ID \in seen
          /\ events[l].ID \notin seen

\* ---------------------------------------------------------------- C32
\* C32: a successful cycle that observes the scanner result the last
\* successful cycle of the process observed returns no event and changes
\* nothing in the store but last_seen of the observed rows (severity and
\* image are rewritten with the values they have).
C32_FixedPoint ==
    (pc = "notify" /\ ~pollErr /\ cycleStart.lastScan = Some(out.scan)) =>
        /\ events = <<>>
        /\ DOMAIN db = DOMAIN cycleStart.db
        /\ \A i \in DOMAIN db :
              IF i \in seen
              THEN /\ db[i] = [cycleStart.db[i] EXCEPT !.last_seen = db[i].last_seen]
                   /\ \E v \in out.scan :
                         v.ID = i /\ db[i].severity = v.Severity /\ db[i].image = v.Image
              ELSE db[i] = cycleStart.db[i]

\* C32's case: the second of two successful cycles over the same non-empty
\* scanner result has refreshed last_seen.
C32_Witness ==
    /\ pc = "notify"
    /\ ~pollErr
    /\ out.scan # {}
    /\ cycleStart.lastScan = Some(out.scan)
    /\ db # cycleStart.db
    /\ events = <<>>

\* ---------------------------------------------------------------- C33
\* The rows that were FIXED when the last store call began.
FixedBefore == {i \in DOMAIN last.pre : last.pre[i].state = StateFixed}

\* C33: MarkFixed leaves a row that is already FIXED as it is, fixed_at
\* included, and does not return it; so every FIXED event of a cycle is for
\* a row that was OPEN when the cycle began and that this cycle's MarkFixed
\* has marked, once.
C33_FixedLeftAlone ==
    /\ last.op = "MarkFixed" =>
          \A i \in FixedBefore :
              /\ db[i] = last.pre[i]
              /\ \A r \in last.fixed : r.id # i
    /\ (pc = "notify" /\ ~pollErr) =>
          \A k \in EventsOfType("FIXED") :
              /\ cycleStart.db[events[k].ID].state = StateOpen
              /\ db[events[k].ID].fixed_at = Some(last.t)
              /\ \A l \in EventsOfType("FIXED") : events[l].ID = events[k].ID => l = k

\* C33's case: MarkFixed has marked a row while another row was already
\* FIXED, and the cycle has one FIXED event.
C33_Witness ==
    /\ pc = "notify"
    /\ ~pollErr
    /\ last.op = "MarkFixed"
    /\ FixedBefore # {}
    /\ Cardinality(last.fixed) = 1
    /\ Cardinality(EventsOfType("FIXED")) = 1
    /\ \E i \in FixedBefore : db[i].fixed_at # Some(last.t)

\* =================================== the first-cycle flag's claims (C34, C35)
\* The step of Server.poll after Poll returned without an error.
PollBranchStep == pc = "notify" /\ pc' = "return"

\* ---------------------------------------------------------------- C34
\* What C34 says of a step: NotifyInitialized is invoked only with firstPoll
\* set, and the step clears it; only the start of a process sets firstPoll;
\* with firstPoll cleared the cycle takes the incremental path, Notify when
\* it has events and no call when it has none.
C34_Step ==
    /\ (PollBranchStep /\ invoked'.fn = "NotifyInitialized") =>
          (firstPoll /\ ~firstPoll')
    /\ (~firstPoll /\ firstPoll') => (loop' = "initial" /\ pc' = "poll")
    /\ (PollBranchStep /\ ~firstPoll) =>
          /\ ~firstPoll'
          /\ invoked'.fn = IF events # <<>> THEN "Notify" ELSE "none"

\* C34: NotifyInitialized is invoked at most once in the lifetime of a
\* process: the first-cycle branch clears firstPoll, nothing but a new
\* process sets it again, and every later cycle takes the Notify path.
C34_SummaryAtMostOnce == [][C34_Step]_vars

\* C34's case: a cycle of a process whose first-cycle branch has run has
\* events and has invoked Notify.
C34_Witness ==
    /\ loop = "ticker"
    /\ pc = "return"
    /\ ~cycleStart.firstPoll
    /\ events # <<>>
    /\ invoked.fn = "Notify"

\* ---------------------------------------------------------------- C35
\* C35: a cycle whose Poll failed leaves firstPoll as it was, so with a
\* channel configured the first cycle that succeeds, were it after failed
\* ones, is treated as the first cycle: the summary when it has events, no
\* call when it has none, and never Notify.
C35_FailureKeepsFirstPoll ==
    /\ (pc \in {"return", "idle"} /\ pollErr) =>
          /\ firstPoll = cycleStart.firstPoll
          /\ invoked = NoInvocation
          /\ sent = <<>>
    /\ (pc = "return" /\ ~pollErr /\ cycleStart.firstPoll /\ HasNotifications(config)) =>
          /\ invoked.fn = IF events # <<>> THEN "NotifyInitialized" ELSE "none"
          /\ ~firstPoll

\* C35's case: the first cycle of the process failed at the scanner; a later
\* cycle has succeeded and has sent the summary.
C35_Witness ==
    /\ loop = "ticker"
    /\ pc = "return"
    /\ ~pollErr
    /\ cycleStart.firstPoll
    /\ HasNotifications(config)
    /\ invoked.fn = "NotifyInitialized"

\* ---------------------------------------------------------------- C36
\* C36: no step of the process sets ready back to false, whether a cycle
\* fails at the scanner or at the store or the process is shut down.
C36_ReadyMonotonic == [][ready => ready']_vars

\* C36's case: after a successful first cycle a later cycle has failed and
\* the process has been shut down; ready is still true.
C36_Witness ==
    /\ ready
    /\ loop = "ticker"
    /\ ~cycleStart.firstPoll
    /\ pollErr
    /\ proc = "exited"

\* ======================================== the Notifier's claims (C37, C38)
\* ---------------------------------------------------------------- C37
\* The itemized deliveries of this cycle to the remote-sync channel that
\* hold the event e.
SaasDeliveriesOf(e) ==
    {k \in DOMAIN sent : /\ sent[k].channel = "saas"
                         /\ sent[k].kind = "events"
                         /\ e \in sent[k].events}

\* C37: in one cycle every event the cycle produced is submitted to the
\* remote-sync channel at most once: not by the retry of the unsynced rows
\* and again by Notify or NotifyInitialized.
C37_SaasOncePerCycle ==
    Notified => \A e \in Range(events) : Cardinality(SaasDeliveriesOf(e)) <= 1

\* ---------------------------------------------------------------- C38
\* The number of events of the call that carry the severity sev.
CountOf(sev) == Cardinality({k \in DOMAIN events : events[k].Severity = sev})

\* The severities that occur among the events of the call.
Occurring == {events[k].Severity : k \in DOMAIN events}

MaxIterations == 10

\* The Execute calls of one Ask that return an error.
MaxToolErrors == 1

\* The tool outputs of one Ask that are longer than maxToolOutputBytes.
MaxLongOutputs == 1

\* The responses of one Ask that request two tool calls; the others that
\* request tools request one.
MaxBatches == 1

RoleSystem == "system"
RoleUser == "user"
RoleAssistant == "assistant"
RoleTool == "tool"

ErrLLM == "LLM error"
ErrMaxIterations == "agent loop exceeded maximum iterations"

\* An llm.Message.
Message(role, content, toolCalls, toolCallID) ==
    [Role |-> role, Content |-> content, ToolCalls |-> toolCalls,
     ToolCallID |-> toolCallID]

\* What registry.Execute returned: an output, an output longer than
\* maxToolOutputBytes, or an error.
ToolOutcomes == {"output", "long output", "error"}

\* The ids of the n tool calls of the response of round trip k.
ToolCallIDs(k, n) == [j \in 1..n |-> <<k, j>>]

\* The message a tool call leaves: `result = fmt.Sprintf("Error: %v", err)`
\* on an error, the output cut at maxToolOutputBytes when it is longer.
ToolMessage(tc, o) ==
    LET result == IF o = "error" THEN [text |-> "Error", long |-> FALSE]
                  ELSE [text |-> "output", long |-> o = "long output"]
    IN Message(RoleTool, [text |-> result.text, truncated |-> result.long],
               <<>>, Some(tc))

\* Mutant: the loop makes one more round.
LoopConditionInclusive(i) == i <= MaxIterations

\* The loop's condition.
LoopCondition(i) == i < MaxIterations

NoResponse == [err |-> FALSE, content |-> 0, toolCalls |-> 0]

AskInit ==
    /\ db = <<>>
    /\ synced = {}
    /\ now = 0
    /\ last = NoCall
    /\ prev = NoPrev
    /\ config = NoConfig
    /\ loop = "none"
    /\ pc = "chat"
    /\ firstPoll = FALSE
    /\ ready = FALSE
    /\ cands = <<>>
    /\ seen = {}
    /\ events = <<>>
    /\ pollErr = FALSE
    /\ sent = <<>>
    /\ cycleStart = NoCycle
    /\ invoked = NoInvocation
    /\ results = <<>>
    /\ calls = <<>>
    /\ race = NoRace
    /\ arg = <<Message(RoleSystem, "systemPrompt", <<>>, NULL),
               Message(RoleUser, "question", <<>>, NULL)>>
    /\ \E conv \in BOOLEAN :
          out = [op |-> "Ask", conversation |-> conv, i |-> 0, toolCalls |-> <<>>,
                 response |-> NoResponse, chats |-> 0, execErrs |-> 0, ret |-> NULL]
    /\ proc = "none"
    /\ tick = FALSE
    /\ http = NoRequest
    /\ inFlight = 0
    /\ crash = NoCrash

AskFrame == <<storeVars, config, loop, firstPoll, ready, cycleVars, concVars, runVars>>

\* client.Chat returns an error: Ask returns it.
AskChatError ==
    /\ pc = "chat"
    /\ LoopCondition(out.i)
    /\ out' = [out EXCEPT !.chats = @ + 1,
                          !.response = [err |-> TRUE, content |-> 0, toolCalls |-> 0],
                          !.ret = Some([content |-> "", err |-> ErrLLM])]
    /\ pc' = "returned"
    /\ UNCHANGED <<arg, AskFrame>>

\* client.Chat returns a response without tool calls (its content is named
\* by the round trip that brought it): Ask returns the content;
\* Conversation.Ask first appends it to the history.
AskChatContent ==
    /\ pc = "chat"
    /\ LoopCondition(out.i)
    /\ LET k == out.chats + 1
       IN /\ out' = [out EXCEPT !.chats = k,
                                !.response = [err |-> FALSE, content |-> k, toolCalls |-> 0],
                                !.ret = Some([content |-> k, err |-> "nil"])]
          /\ arg' = IF out.conversation
                    THEN Append(arg, Message(RoleAssistant, k, <<>>, NULL))
                    ELSE arg
    /\ pc' = "returned"
    /\ UNCHANGED AskFrame

\* The responses so far that requested two tool calls.
Batches == Cardinality({k \in DOMAIN arg : Len(arg[k].ToolCalls) = 2})

\* client.Chat returns a response with tool calls: the assistant message
\* is appended and the calls are executed in order.
AskChatToolCalls ==
    /\ pc = "chat"
    /\ LoopCondition(out.i)
    /\ \E n \in 1..2 :
          /\ n = 2 => Batches < MaxBatches
          /\ LET k == out.chats + 1
             IN /\ out' = [out EXCEPT !.chats = k,
                                      !.response = [err |-> FALSE, content |-> k,
                                                    toolCalls |-> n],
                                      !.toolCalls = ToolCallIDs(k, n)]
                /\ arg' = Append(arg, Message(RoleAssistant, k, ToolCallIDs(k, n), NULL))
    /\ pc' = "execute"
    /\ UNCHANGED AskFrame

\* The tool outputs so far that were cut.
LongOutputs == Cardinality({k \in DOMAIN arg : arg[k].Role = RoleTool
                                              /\ arg[k].Content.truncated})

\* registry.Execute of the next tool call and the append of its result;
\* after the last call of the response the loop counter advances.
AskExecute ==
    /\ pc = "execute"
    /\ \E o \in ToolOutcomes :
          /\ o = "error" => out.execErrs < MaxToolErrors
          /\ o = "long output" => LongOutputs < MaxLongOutputs
          /\ arg' = Append(arg, ToolMessage(Head(out.toolCalls), o))
          /\ out' = [out EXCEPT !.toolCalls = Tail(@),
                                !.execErrs = IF o = "error" THEN @ + 1 ELSE @,
                                !.i = IF Tail(out.toolCalls) = <<>> THEN @ + 1 ELSE @]
    /\ pc' = IF Tail(out.toolCalls) = <<>> THEN "chat" ELSE "execute"
    /\ UNCHANGED AskFrame

\* The loop ran out: `return "", fmt.Errorf("agent loop exceeded maximum
\* iterations")`.
AskExceeded ==
    /\ pc = "chat"
    /\ ~LoopCondition(out.i)
    /\ out' = [out EXCEPT !.ret = Some([content |-> "", err |-> ErrMaxIterations])]
    /\ pc' = "returned"
    /\ UNCHANGED <<arg, AskFrame>>

AskNext ==
    \/ AskChatError
    \/ AskChatContent
    \/ AskChatToolCalls
    \/ AskExecute
    \/ AskExceeded

\* Ask is sequential code, and client.Chat and registry.Execute return:
\* a step that can be taken is taken.
SpecAsk == AskInit /\ [][AskNext]_vars /\ WF_vars(AskNext)

\* ---------------------------------------------------------------- C39
\* The messages of the history in which the LLM requested tool calls.
ToolRequests == {k \in DOMAIN arg : arg[k].Role = "assistant" /\ arg[k].ToolCalls # <<>>}

\* The tool messages of the history that carry an error as their content.
ToolErrorMessages ==
    {k \in DOMAIN arg : arg[k].Role = "tool" /\ arg[k].Content.text = "Error"}

\* What holds of Ask at every moment: at most 10 round trips; it has
\* returned exactly when it returns the LLM's error, the content of the
\* first response without tool calls, or, after 10 responses that all
\* requested tool calls, the maximum-iterations error; and every failed
\* tool execution is in the history as that tool's result.
AskSafe ==
    /\ out.chats <= 10
    /\ Cardinality(ToolErrorMessages) = out.execErrs
    /\ pc # "returned" =>
          /\ out.ret = NULL
          /\ out.chats = Cardinality(ToolRequests)
          /\ out.chats > 0 => ~out.response.err /\ out.response.toolCalls > 0
    /\ pc = "returned" =>
          \/ /\ out.response.err
             /\ out.ret = <<[content |-> "", err |-> "LLM error"]>>
          \/ /\ ~out.response.err
             /\ out.response.toolCalls = 0
             /\ out.ret = <<[content |-> out.response.content, err |-> "nil"]>>
             /\ Cardinality(ToolRequests) = out.chats - 1
          \/ /\ ~out.response.err
             /\ out.response.toolCalls > 0
             /\ out.ret = <<[content |-> "",
                             err |-> "agent loop exceeded maximum iterations"]>>
             /\ out.chats = 10
             /\ Cardinality(ToolRequests) = 10

\* C39: a call of Ask terminates after at most 10 LLM round trips: it
\* returns the first response without tool calls, returns the LLM's error
\* at once when a round trip fails, and returns a maximum-iterations error
\* when all 10 responses request tool calls; a tool execution error does
\* not end the loop, it is handed back to the LLM as the tool's result.
C39_AskTerminates == []AskSafe /\ <>(pc = "returned")

\* C39's case: a tool execution failed, the loop went on, all 10 responses
\* requested tool calls and Ask returned the maximum-iterations error.
C39_Witness ==
    /\ pc = "returned"
    /\ out.execErrs = 1
    /\ out.chats = 10
    /\ out.ret = <<[content |-> "", err |-> "agent loop exceeded maximum iterations"]>>

====
